---- MODULE Spec2Model ----
(***************************************************************************)
(* EnvMesh connection and role-management core: the node supervisor       *)
(* (node.rs), the election (election.rs), the health loop (health.rs) and *)
(* the embedded server's listener and fan-out (server.rs), the store       *)
(* (storage.rs) and the command surfaces that mutate it (bin/daemon.rs,    *)
(* api.rs).                                                                *)
(*                                                                         *)
(* Option<T> is a sequence of length <= 1: <<>> is None, <<x>> is Some(x). *)
(* PeerIds are strings in the source, compared lexicographically; here     *)
(* they are integers compared with <.                                      *)
(***************************************************************************)
EXTENDS Integers, Sequences, FiniteSets, TLC

\* ---------------------------------------------------------------- bounds
NumNodes == 2
NumPeerIds == 3
NumEphemeral == 2
MaxCandidates == 3
MaxRounds == 1
NumKeys == 2
NumValues == 2
NumOrigins == 2
MaxClock == 3
NumConns == 2
NumTasks == 2
MaxBroadcasts == 3
MaxLines == 3
MaxFrames == 3

\* ------------------------------------------------------- program constants
DEFAULT_LAN_PORT == 8765
failure_threshold == 3
CloudPort == 8080

Nodes == 1..NumNodes
PeerIds == 1..NumPeerIds
Ephemeral == { DEFAULT_LAN_PORT + i : i \in 1..NumEphemeral }
Ports == {DEFAULT_LAN_PORT} \cup Ephemeral

None == <<>>
Some(x) == <<x>>

ServerMode == {"Auto", "ServerPreferred", "ClientOnly"}

NodeConfig ==
  [ enable_cloud : BOOLEAN, enable_lan : BOOLEAN,
    server_mode : ServerMode, lan_port : {0, DEFAULT_LAN_PORT} ]

\* NodeConfig::default: both transports enabled, Auto, port 8765.
DefaultConfig ==
  [ enable_cloud |-> TRUE, enable_lan |-> TRUE,
    server_mode |-> "Auto", lan_port |-> DEFAULT_LAN_PORT ]

\* cloud_url of NodeConfig::default, "ws://localhost:8080".
cloud_url == <<"ws", "localhost", CloudPort>>

\* The address a LAN discovery answer carries (ServerInfo.address).
LanAddress == "192.168.1.10"

\* format!("ws://{}:{}", server_info.address, server_info.port)
LanUrl(info) == <<"ws", info.address, info.port>>

\* NodeMode, a tagged variant; the fields a variant lacks are blank.
CloudClient == [kind |-> "CloudClient", server_addr |-> <<>>, port |-> 0]
LanClient(url) == [kind |-> "LanClient", server_addr |-> url, port |-> 0]
LanServer(p) == [kind |-> "LanServer", server_addr |-> <<>>, port |-> p]

VARIABLES
  config,         \* node -> NodeConfig
  peer_id,        \* node -> PeerId (generate_peer_id, unique)
  pc,             \* node -> position of the process
  caller,         \* node -> who invoked reconnect_with_failover
  mode,           \* node -> EnvMeshNode.mode
  client,         \* node -> EnvMeshNode.client : Option<WebSocketClient> (its url)
  server,         \* node -> EnvMeshNode.server : Option<EmbeddedServer> (its port)
  lsn,            \* node -> port -> state of the acceptor task owning the listener
  failure_count,  \* node -> monitor_loop's consecutive-failure counter
  cloudUp,        \* environment: the cloud completes a handshake
  lanUp,          \* environment: the discovered LAN server completes a handshake
  sel,            \* node -> record of the current / last reconnect_with_failover call
  tick,           \* node -> record of the last health tick
  streak,         \* node -> failed probes since the last success or failover attempt
  el,             \* the election round examined in isolation
  now,            \* Utc::now().timestamp() of the process, in seconds
  store,          \* table env_vars of the process: key -> Option<row>
  op,             \* record of the last operation on the store or its surface
  held,           \* key -> the (value, timestamp, origin) of the last local set
                  \* that no delete and no later remote message has followed
  conns,          \* EmbeddedServer.connections: Vec<WsStream> (connection ids)
  alive,          \* environment: the connections a send to which succeeds
  clientOk,       \* environment: a send on the held wire client succeeds
  evicted,        \* the connections broadcast has removed
  snd,            \* record of the last send_update call
  fan,            \* the tasks inside EmbeddedServer::broadcast, the holder of
                  \* the connections mutex and what each connection was sent
  ipc,            \* one connection to the daemon's socket: the lines read
                  \* from it and the responses written to it
  lk,             \* the Store mutex and the network mutex of the application
                  \* state, and the position of each task inside a handler
  hs,             \* the held server's handshakes: the connections that
                  \* completed one, those that failed one, and what the
                  \* server reported when it was started
  rx              \* the inbound side of the held wire client: the frames
                  \* not yet read, the frames read and what receive returned

dataVars == << now, store, op, held, conns, alive, clientOk, evicted, snd,
              fan, ipc, lk, hs, rx >>

vars == << config, peer_id, pc, caller, mode, client, server, lsn,
           failure_count, cloudUp, lanUp, sel, tick, streak, el,
           now, store, op, held, conns, alive, clientOk, evicted, snd,
           fan, ipc, lk, hs, rx >>

nodeVars == << config, peer_id, pc, caller, mode, client, server, lsn,
               failure_count, cloudUp, lanUp, sel, tick, streak >>

\* ---------------------------------------------------------------- election

RECURSIVE SeqMax(_)
\* candidates.iter().max() of a non-empty Vec<PeerId>
SeqMax(s) ==
  IF Len(s) = 1 THEN s[1]
  ELSE LET m == SeqMax(Tail(s)) IN IF m < s[1] THEN s[1] ELSE m

RECURSIVE SeqMin(_)
SeqMin(s) ==
  IF Len(s) = 1 THEN s[1]
  ELSE LET m == SeqMin(Tail(s)) IN IF s[1] < m THEN s[1] ELSE m

ElectionDecisionMin(my_peer_id, candidates) ==
  IF candidates = <<>> THEN TRUE
  ELSE SeqMin(candidates) < my_peer_id

ElectionDecisionLeq(my_peer_id, candidates) ==
  IF candidates = <<>> THEN TRUE
  ELSE SeqMax(candidates) <= my_peer_id

\* The body of should_become_server once the candidates are collected:
\* true on an empty list, otherwise max_candidate < my_peer_id.
ElectionDecision(my_peer_id, candidates) ==
  IF candidates = <<>> THEN TRUE
  ELSE SeqMax(candidates) < my_peer_id

\* Sequences over S of length at most k.
SeqsUpTo(S, k) == UNION { [1..i -> S] : i \in 0..k }

\* discover_candidates in the repository: the placeholder returns Ok(Vec::new()).
discover_candidates(n) == { <<>> }

\* What a working candidate query may return: any list of other nodes' ids.
CandidateAnswers(n) == SeqsUpTo(PeerIds \ {peer_id[n]}, MaxCandidates)

\* discover_lan_server in the repository: the placeholder returns Ok(None).
discover_lan_server(n) == { None }

\* What a working server query may return: None, or one ServerInfo.
ServerAnswers(n) ==
  { None, Some([address |-> LanAddress, port |-> DEFAULT_LAN_PORT]) }

\* The answer reconnect_with_failover gets from election.discover_lan_server:
\* the repository's ("stub"), or any answer of the callee's type ("env").
Discovered(n, sub) ==
  IF sub = "stub" THEN discover_lan_server(n) ELSE ServerAnswers(n)

\* The list should_become_server gets from self.discover_candidates.
Candidates(n, sub) ==
  IF sub = "stub" THEN discover_candidates(n) ELSE CandidateAnswers(n)

\* ------------------------------------------------------------------- state

FreshSel ==
  [ cloud |-> "na", lan |-> "na", discover |-> 0, elect |-> 0,
    announce |-> 0, start |-> 0, rounds |-> 0, result |-> "none",
    pending |-> None, bind |-> "na", found |-> None ]

NoTick ==
  [ kind |-> "none", probe |-> "none", count |-> 0, trig |-> "none",
    pre |-> <<>> ]

NoElection ==
  [ announced |-> {}, seen |-> <<>>, self_seen |-> FALSE,
    result |-> [p \in PeerIds |-> None] ]

\* generate_peer_id: no two nodes get the same id.
PeerIdMaps ==
  { f \in [Nodes -> PeerIds] : \A a, b \in Nodes : a # b => f[a] # f[b] }

\* ------------------------------------------------------------ the store's data

Keys == 1..NumKeys
Values == 1..NumValues
Origins == 1..NumOrigins
\* Seconds since the epoch that the clock of the process shows.
Times == 1..MaxClock
Conns == 1..NumConns
\* The tasks that call broadcast on the one EmbeddedServer.
Tasks == 1..NumTasks
\* The messages handed to broadcast, numbered in the order of the calls.
MsgIds == 1..MaxBroadcasts

\* state.machine_id, the id the process passes to the store as the origin.
machine_id == CHOOSE o \in Origins : \A q \in Origins : o <= q

\* A row of table env_vars (the key is the index of `store`).
Row(v, t, o, d) ==
  [ value |-> v, timestamp |-> t, machine_id |-> o, deleted |-> d ]

\* client.rs SyncMessage { key, value, timestamp, machine_id, deleted }.
SyncMessage ==
  [ key : Keys, value : Values, timestamp : Times, machine_id : Origins,
    deleted : BOOLEAN ]

NoOp ==
  [ surface |-> "none", kind |-> "none", key |-> 0, pre |-> None,
    wrote |-> FALSE, t |-> 0, resp |-> "none", emit |-> "none",
    msg |-> None, out |-> None, origin |-> 0 ]

NoSend ==
  [ path |-> "none", result |-> "none", hadClient |-> FALSE,
    hadServer |-> FALSE, wire |-> 0, before |-> <<>>, after |-> <<>>,
    ok |-> {}, gone |-> {}, attempts |-> [c \in Conns |-> 0],
    delivered |-> [c \in Conns |-> 0] ]

\* No task is inside broadcast, the connections mutex is free, nothing was
\* sent. order lists the messages by the moment their broadcast took the
\* mutex, log the frames in the order they were written.
NoFan ==
  [ lock |-> None, pos |-> [t \in Tasks |-> "idle"],
    i |-> [t \in Tasks |-> 0], msg |-> [t \in Tasks |-> 0],
    issued |-> 0, order |-> <<>>, inbox |-> [c \in Conns |-> <<>>],
    log |-> <<>> ]

\* A connection just accepted: no line read, no response written.
NoIpc ==
  [ state |-> "open", lines |-> 0, last |-> "none", end |-> "none",
    resps |-> <<>> ]

\* Both mutexes free, no task inside a handler.
NoLocks ==
  [ storage |-> None, p2p |-> None, pos |-> [t \in Tasks |-> "idle"],
    h |-> [t \in Tasks |-> "none"], left |-> [t \in Tasks |-> 0] ]

\* A server just started: no handshake yet.
NoHandshakes == [ done |-> {}, failed |-> {}, started |-> None ]

\* A client just connected: the stream is open, nothing has arrived.
NoInbound ==
  [ open |-> TRUE, sent |-> <<>>, queue |-> <<>>, read |-> <<>>,
    results |-> <<>>, pre |-> <<>> ]

\* A new database file, no server, nothing sent.
InitData ==
  /\ now = 1
  /\ store = [k \in Keys |-> None]
  /\ op = NoOp
  /\ held = [k \in Keys |-> None]
  /\ conns = <<>>
  /\ alive = {}
  /\ clientOk = TRUE
  /\ evicted = {}
  /\ snd = NoSend
  /\ fan = NoFan
  /\ ipc = NoIpc
  /\ lk = NoLocks
  /\ hs = NoHandshakes
  /\ rx = NoInbound

InitCommon ==
  /\ InitData
  /\ pc = [n \in Nodes |-> "off"]
  /\ caller = [n \in Nodes |-> "new"]
  /\ mode = [n \in Nodes |-> CloudClient]
  /\ client = [n \in Nodes |-> None]
  /\ server = [n \in Nodes |-> None]
  /\ lsn = [n \in Nodes |-> [p \in Ports |-> "free"]]
  /\ failure_count = [n \in Nodes |-> 0]
  /\ cloudUp \in BOOLEAN
  /\ sel = [n \in Nodes |-> FreshSel]
  /\ tick = [n \in Nodes |-> NoTick]
  /\ streak = [n \in Nodes |-> 0]
  /\ el = NoElection

\* The node whose process the single-node specifications run.
Solo == CHOOSE n \in Nodes : \A m \in Nodes : n <= m

\* The data variables are those of the process of node Solo.
\* A wire client was just constructed by WebSocketClient::connect and assigned
\* to self.client: its stream is open and nothing has arrived on it. The
\* embedded server the node held, if any, is dropped by the assignment of
\* self.server that goes with it, and its connection list with it.
FreshClient(n) ==
  IF n # Solo THEN UNCHANGED dataVars
  ELSE /\ clientOk' = TRUE
       /\ rx' = NoInbound
       /\ conns' = <<>>
       /\ alive' = {}
       /\ evicted' = {}
       /\ hs' = NoHandshakes
       /\ snd' = NoSend
       /\ UNCHANGED << now, store, op, held, fan, ipc, lk >>

\* An embedded server was just started on port p and assigned to
\* self.server: its connection list is Vec::new(). The wire client the node
\* held, if any, is dropped by the assignment of self.client.
FreshServer(n, p) ==
  IF n # Solo THEN UNCHANGED dataVars
  ELSE /\ conns' = <<>>
       /\ alive' = {}
       /\ evicted' = {}
       /\ hs' = [NoHandshakes EXCEPT !.started = Some(p)]
       /\ snd' = NoSend
       /\ clientOk' = TRUE
       /\ rx' = NoInbound
       /\ UNCHANGED << now, store, op, held, fan, ipc, lk >>

\* One process with any configuration and any id; the other processes are
\* never started (they get the default configuration and the remaining ids in
\* order).
InitSolo ==
  /\ InitCommon
  /\ peer_id \in
       { f \in PeerIdMaps :
           \A m \in Nodes \ {Solo} :
             Cardinality({ q \in PeerIds \ {f[Solo]} : q <= f[m] }) =
               Cardinality({ x \in Nodes \ {Solo} : x <= m }) }
  /\ config \in { f \in [Nodes -> NodeConfig] :
                    \A n \in Nodes \ {Solo} : f[n] = DefaultConfig }

Init ==
  /\ InitSolo
  /\ lanUp = FALSE

\* --------------------------------------------------- role selection (node.rs)

PcAfterReturnFatal(who, res) ==
  IF res # "Ok" THEN "dead" ELSE "idle"

\* How a call of reconnect_with_failover returns to its caller: EnvMeshNode::new
\* propagates the error with `?` (the process then ends); failover_to_lan and
\* failback_to_cloud hand it to monitor_loop, which logs it and goes on.
PcAfterReturn(who, res) ==
  IF who = "new" /\ res # "Ok" THEN "dead" ELSE "idle"

LanEnabledAlways(n) == TRUE

\* self.config.enable_lan
LanEnabled(n) == config[n].enable_lan

CountKeptOnError(count, who, res) ==
  IF who = "failover" /\ res = "Ok" THEN 0 ELSE count

\* monitor_loop: failure_count = 0 after failover_to_lan returned, Ok or Err.
CountAfterReturn(count, who, res) ==
  IF who = "failover" THEN 0 ELSE count

Return(n, res, s) ==
  /\ sel' = [sel EXCEPT ![n] = [s EXCEPT !.result = res]]
  /\ pc' = [pc EXCEPT ![n] = PcAfterReturn(caller[n], res)]
  /\ failure_count' =
       [failure_count EXCEPT ![n] = CountAfterReturn(@, caller[n], res)]

\* EnvMeshNode::new: the struct is built with mode CloudClient and neither a
\* client nor a server, then reconnect_with_failover runs.
Start(n) ==
  /\ pc[n] = "off"
  /\ pc' = [pc EXCEPT ![n] = "cloud"]
  /\ caller' = [caller EXCEPT ![n] = "new"]
  /\ mode' = [mode EXCEPT ![n] = CloudClient]
  /\ client' = [client EXCEPT ![n] = None]
  /\ server' = [server EXCEPT ![n] = None]
  /\ sel' = [sel EXCEPT ![n] = FreshSel]
  /\ UNCHANGED dataVars
  /\ UNCHANGED << config, peer_id, lsn, failure_count, cloudUp, lanUp, tick, streak, el >>

\* What the cloud connect of step 1 met: not tried, handshake completed in
\* time, or failed / timed out.
CloudAttempt(n) ==
  IF ~config[n].enable_cloud THEN "skipped"
  ELSE IF cloudUp THEN "ok" ELSE "fail"

CloudConnectedNever(n) == FALSE

\* Step 1's match: the cloud connect is tried only if enable_cloud, and
\* yields Ok(Ok(client)) when the cloud completes the handshake in time.
CloudConnected(n) == config[n].enable_cloud /\ cloudUp

\* Step 1: try the cloud server.
SelectCloud(n) ==
  /\ pc[n] = "cloud"
  /\ IF CloudConnected(n)
     THEN /\ mode' = [mode EXCEPT ![n] = CloudClient]
          /\ client' = [client EXCEPT ![n] = Some(cloud_url)]
          /\ server' = [server EXCEPT ![n] = None]
          /\ Return(n, "Ok", [sel[n] EXCEPT !.cloud = CloudAttempt(n)])
          /\ FreshClient(n)
     ELSE /\ pc' = [pc EXCEPT ![n] = "lan"]
          /\ sel' = [sel EXCEPT ![n].cloud = CloudAttempt(n)]
          /\ UNCHANGED << mode, client, server, failure_count >>
          /\ UNCHANGED dataVars
  /\ UNCHANGED << config, peer_id, caller, lsn, cloudUp, lanUp, tick, streak, el >>

ServerKeptAfterJoin(s) == s

\* self.server = None when the node takes the LanClient role (node.rs:132)
ServerAfterJoin(s) == None

\* Step 2: discover a LAN server and connect to it. The connect at
\* node.rs:125 is awaited without a deadline: to a server that is up it
\* completes; to one that is not, it fails or waits (pc "lanconn") until the
\* server answers or resets the connection.
SelectLan(n, sub) ==
  /\ pc[n] = "lan"
  /\ IF ~LanEnabled(n)
     THEN /\ Return(n, "ErrLanDisabled", [sel[n] EXCEPT !.lan = "skipped"])
          /\ UNCHANGED << mode, client, server >>
          /\ UNCHANGED dataVars
     ELSE \E found \in Discovered(n, sub), waits \in BOOLEAN :
            IF found # None /\ lanUp
            THEN /\ mode' = [mode EXCEPT ![n] = LanClient(LanUrl(found[1]))]
                 /\ client' = [client EXCEPT ![n] = Some(LanUrl(found[1]))]
                 /\ server' = [server EXCEPT ![n] = ServerAfterJoin(@)]
                 /\ Return(n, "Ok",
                      [sel[n] EXCEPT !.lan = "ok", !.discover = @ + 1,
                                     !.found = found])
                 /\ FreshClient(n)
            ELSE IF found # None /\ waits
            THEN /\ pc' = [pc EXCEPT ![n] = "lanconn"]
                 /\ sel' = [sel EXCEPT ![n] =
                      [@ EXCEPT !.lan = "waiting", !.discover = @ + 1,
                                !.pending = Some(LanUrl(found[1])),
                                !.found = found]]
                 /\ UNCHANGED << mode, client, server, failure_count >>
                 /\ UNCHANGED dataVars
            ELSE /\ pc' = [pc EXCEPT ![n] = "elect"]
                 /\ sel' = [sel EXCEPT ![n] =
                      [@ EXCEPT !.lan = IF found = None THEN "none" ELSE "connfail",
                                !.discover = @ + 1, !.found = found]]
                 /\ UNCHANGED << mode, client, server, failure_count >>
                 /\ UNCHANGED dataVars
  /\ UNCHANGED << config, peer_id, caller, lsn, cloudUp, lanUp, tick, streak, el >>

\* The awaited LAN connect completes: the server is up and answers the
\* handshake.
LanConnectDone(n) ==
  /\ pc[n] = "lanconn"
  /\ lanUp
  /\ mode' = [mode EXCEPT ![n] = LanClient(sel[n].pending[1])]
  /\ client' = [client EXCEPT ![n] = sel[n].pending]
  /\ server' = [server EXCEPT ![n] = ServerAfterJoin(@)]
  /\ Return(n, "Ok", [sel[n] EXCEPT !.lan = "ok", !.pending = None])
  /\ FreshClient(n)
  /\ UNCHANGED << config, peer_id, caller, lsn, cloudUp, lanUp, tick, streak, el >>

\* The awaited LAN connect ends in an error: the peer reset or closed the
\* connection. Nothing in the node makes this happen.
LanConnectReset(n) ==
  /\ pc[n] = "lanconn"
  /\ ~lanUp
  /\ pc' = [pc EXCEPT ![n] = "elect"]
  /\ sel' = [sel EXCEPT ![n] = [@ EXCEPT !.lan = "connfail", !.pending = None]]
  /\ UNCHANGED dataVars
  /\ UNCHANGED << config, peer_id, caller, mode, client, server, lsn,
                  failure_count, cloudUp, lanUp, tick, streak, el >>

RefusesServerNever(n) == FALSE

\* self.config.server_mode == ServerMode::ClientOnly
RefusesServer(n) == config[n].server_mode = "ClientOnly"

\* should_become_server: announce_candidate, wait election_timeout,
\* discover_candidates, decide.
should_become_server(n, candidates) ==
  ElectionDecision(peer_id[n], candidates)

\* The number of lost elections of a call, counted up to MaxRounds; the
\* source keeps no such count and sets no limit to the retries.
RoundsAfter(r) == IF r < MaxRounds THEN r + 1 ELSE r

SkipsElectionNever(n) == FALSE

\* self.config.server_mode == ServerMode::ServerPreferred: should_become_server
\* is true without a call of election.should_become_server.
SkipsElection(n) == config[n].server_mode = "ServerPreferred"

\* Step 3 up to the decision: ClientOnly refuses, ServerPreferred skips the
\* election, Auto runs it; a lost election sleeps and calls
\* reconnect_with_failover again.
Elect(n, sub) ==
  /\ pc[n] = "elect"
  /\ IF RefusesServer(n)
     THEN Return(n, "ErrClientOnly", sel[n])
     ELSE IF SkipsElection(n)
     THEN /\ pc' = [pc EXCEPT ![n] = "bind"]
          /\ UNCHANGED << sel, failure_count >>
     ELSE \E candidates \in Candidates(n, sub) :
            IF should_become_server(n, candidates)
            THEN /\ pc' = [pc EXCEPT ![n] = "bind"]
                 /\ sel' = [sel EXCEPT ![n].elect = @ + 1]
                 /\ UNCHANGED failure_count
            ELSE /\ pc' = [pc EXCEPT ![n] = "cloud"]
                 /\ sel' = [sel EXCEPT ![n] =
                              [FreshSel EXCEPT !.rounds = RoundsAfter(sel[n].rounds)]]
                 /\ UNCHANGED failure_count
  /\ UNCHANGED dataVars
  /\ UNCHANGED << config, peer_id, caller, mode, client, server, lsn,
                  cloudUp, lanUp, tick, streak, el >>

KeepClient(c) == c

\* self.client = None when the node takes the LanServer role
DropClient(c) == None

FreePorts(n) == { p \in Ports : lsn[n][p] = "free" }

EmbeddedServer_startAnyPort(n, port) ==
  IF FreePorts(n) = {} THEN { None }
  ELSE { Some(p) : p \in FreePorts(n) }

\* EmbeddedServer::start(port): TcpListener::bind fails when the port is
\* bound; port 0 takes any free ephemeral port. The result is the bound port.
EmbeddedServer_start(n, port) ==
  IF port # 0
  THEN IF port \in FreePorts(n) THEN { Some(port) } ELSE { None }
  ELSE IF FreePorts(n) \cap Ephemeral = {} THEN { None }
       ELSE { Some(p) : p \in FreePorts(n) \cap Ephemeral }

\* Step 3 after a won election: start the server, announce it, take the role.
BecomeServer(n) ==
  /\ pc[n] = "bind"
  /\ \E started \in EmbeddedServer_start(n, config[n].lan_port) :
       IF started = None
       THEN /\ Return(n, "ErrBind", [sel[n] EXCEPT !.bind = "fail"])
            /\ UNCHANGED << mode, client, server, lsn >>
            /\ UNCHANGED dataVars
       ELSE /\ lsn' = [lsn EXCEPT ![n][started[1]] = "accepting"]
            /\ mode' = [mode EXCEPT ![n] = LanServer(started[1])]
            /\ server' = [server EXCEPT ![n] = started]
            /\ client' = [client EXCEPT ![n] = DropClient(@)]
            /\ Return(n, "Ok",
                 [sel[n] EXCEPT !.start = @ + 1, !.announce = @ + 1,
                                !.bind = "ok"])
            /\ FreshServer(n, started[1])
  /\ UNCHANGED << config, peer_id, caller, cloudUp, lanUp, tick, streak, el >>

\* ------------------------------------------------------ health loop (health.rs)

\* is_cloud_healthy: a bounded connect to the cloud URL, dropped on success.
is_cloud_healthy == cloudUp

ShouldFailoverLate(count) == count > failure_threshold

\* monitor_loop: failure_count >= self.failure_threshold
ShouldFailover(count) == count >= failure_threshold

\* monitor_loop, the LanClient | LanServer arm: failback whenever the cloud
\* probe succeeds.
ShouldFailback(n, healthy) == healthy

\* failover_to_lan / failback_to_cloud: lock the node and call
\* reconnect_with_failover.
Trigger(n, who) ==
  /\ pc' = [pc EXCEPT ![n] = "cloud"]
  /\ caller' = [caller EXCEPT ![n] = who]
  /\ sel' = [sel EXCEPT ![n] = FreshSel]

\* What the node holds: its mode and its two optional resources.
Held(n) == << mode[n], client[n], server[n] >>

\* One iteration of monitor_loop after interval.tick(). tick and streak record
\* what the iteration saw: streak counts the failed CloudClient probes since
\* the last successful probe or the last failover attempt.
HealthTick(n) ==
  /\ pc[n] = "idle"
  /\ LET healthy == is_cloud_healthy
         kind == mode[n].kind
         probe == IF healthy THEN "ok" ELSE "fail"
     IN
     IF kind = "CloudClient"
     THEN IF ~healthy
          THEN LET count == failure_count[n] + 1 IN
               /\ failure_count' = [failure_count EXCEPT ![n] = count]
               /\ IF ShouldFailover(count)
                  THEN /\ Trigger(n, "failover")
                       /\ tick' = [tick EXCEPT ![n] =
                            [kind |-> kind, probe |-> probe,
                             count |-> streak[n] + 1, trig |-> "failover", pre |-> Held(n)]]
                       /\ streak' = [streak EXCEPT ![n] = 0]
                  ELSE /\ tick' = [tick EXCEPT ![n] =
                            [kind |-> kind, probe |-> probe,
                             count |-> streak[n] + 1, trig |-> "none", pre |-> Held(n)]]
                       /\ streak' = [streak EXCEPT ![n] = @ + 1]
                       /\ UNCHANGED << pc, caller, sel >>
          ELSE /\ failure_count' = [failure_count EXCEPT ![n] = 0]
               /\ tick' = [tick EXCEPT ![n] =
                    [kind |-> kind, probe |-> probe, count |-> 0, trig |-> "none", pre |-> Held(n)]]
               /\ streak' = [streak EXCEPT ![n] = 0]
               /\ UNCHANGED << pc, caller, sel >>
     ELSE /\ IF ShouldFailback(n, healthy)
             THEN /\ Trigger(n, "failback")
                  /\ tick' = [tick EXCEPT ![n] =
                       [kind |-> kind, probe |-> probe, count |-> 0,
                        trig |-> "failback", pre |-> Held(n)]]
             ELSE /\ tick' = [tick EXCEPT ![n] =
                       [kind |-> kind, probe |-> probe, count |-> 0,
                        trig |-> "none", pre |-> Held(n)]]
                  /\ UNCHANGED << pc, caller, sel >>
          /\ UNCHANGED << failure_count, streak >>
  /\ UNCHANGED dataVars
  /\ UNCHANGED << config, peer_id, mode, client, server, lsn, cloudUp, lanUp, el >>

\* ------------------------------------------- acceptor task (server.rs) and peers

\* The acceptor's select! took listener.accept(): a TCP client connected and
\* handle_connection awaits accept_async.
InboundConnect(n, p) ==
  /\ lsn[n][p] = "accepting"
  /\ lsn' = [lsn EXCEPT ![n][p] = "handshaking"]
  /\ UNCHANGED dataVars
  /\ UNCHANGED << config, peer_id, pc, caller, mode, client, server,
                  failure_count, cloudUp, lanUp, sel, tick, streak, el >>

\* accept_async returned Err: handle_connection returns it, the acceptor logs
\* it and loops back to select!. (The handshake that succeeds is HandshakeOk.)
HandshakeEnd(n, p) ==
  /\ lsn[n][p] = "handshaking"
  /\ lsn' = [lsn EXCEPT ![n][p] = "accepting"]
  /\ UNCHANGED dataVars
  /\ UNCHANGED << config, peer_id, pc, caller, mode, client, server,
                  failure_count, cloudUp, lanUp, sel, tick, streak, el >>

\* The EmbeddedServer that owns the listener on p was dropped: its shutdown
\* sender is gone.
Orphan(n, p) == lsn[n][p] # "free" /\ server[n] # Some(p)

\* The acceptor's select! took shutdown_rx.recv(), which resolves once the
\* sender is dropped: the loop breaks and the listener is closed.
AcceptorExit(n, p) ==
  /\ lsn[n][p] = "accepting"
  /\ Orphan(n, p)
  /\ lsn' = [lsn EXCEPT ![n][p] = "free"]
  /\ UNCHANGED dataVars
  /\ UNCHANGED << config, peer_id, pc, caller, mode, client, server,
                  failure_count, cloudUp, lanUp, sel, tick, streak, el >>

\* The cloud relay goes down or comes back.
CloudFlip ==
  /\ cloudUp' = ~cloudUp
  /\ UNCHANGED dataVars
  /\ UNCHANGED << config, peer_id, pc, caller, mode, client, server, lsn,
                  failure_count, lanUp, sel, tick, streak, el >>

\* The LAN server a discovery answer names goes down or comes back.
LanFlip ==
  /\ lanUp' = ~lanUp
  /\ UNCHANGED dataVars
  /\ UNCHANGED << config, peer_id, pc, caller, mode, client, server, lsn,
                  failure_count, cloudUp, sel, tick, streak, el >>

\* ------------------------------------------------------------ specifications

NodeStep(n, sub) ==
  \/ Start(n)
  \/ SelectCloud(n)
  \/ SelectLan(n, sub)
  \/ Elect(n, sub)
  \/ BecomeServer(n)
  \/ HealthTick(n)
  \/ \E p \in Ports : InboundConnect(n, p)
  \/ \E p \in Ports : HandshakeEnd(n, p)
  \/ \E p \in Ports : AcceptorExit(n, p)

\* The repository as it is: discovery and candidate collection are the
\* placeholders of election.rs. One process and its environment.
Next ==
  \/ NodeStep(Solo, "stub")
  \/ CloudFlip

Spec == Init /\ [][Next]_vars

\* The same process with the answers of discover_lan_server and
\* discover_candidates taken as inputs, and a LAN server that can be joined.
InitEnv ==
  /\ InitSolo
  /\ lanUp \in BOOLEAN

NextEnv ==
  \/ NodeStep(Solo, "env")
  \/ LanConnectDone(Solo)
  \/ LanConnectReset(Solo)
  \/ CloudFlip
  \/ LanFlip

SpecEnv == InitEnv /\ [][NextEnv]_vars

\* Two processes of the repository as it is, both Auto with the LAN enabled.
InitPair ==
  /\ InitCommon
  /\ peer_id \in PeerIdMaps
  /\ config \in [Nodes -> { c \in NodeConfig :
                              c.server_mode = "Auto" /\ c.enable_lan }]
  /\ lanUp = FALSE

NextPair ==
  \/ \E n \in Nodes : NodeStep(n, "stub")
  \/ CloudFlip

SpecPair == InitPair /\ [][NextPair]_vars

\* ------------------------------------------------ the election round, isolated

Range(s) == { s[i] : i \in 1..Len(s) }

\* The list candidate p collects from the announcements `seen`: the whole
\* list, or the list without p's own announcement.
Collected(p) ==
  IF el.self_seen THEN el.seen
  ELSE SelectSeq(el.seen, LAMBDA c : c # p)

\* One election round: the candidates `announced`, the list of announcements
\* the discovery namespace shows (in any order, possibly repeated), and
\* whether a candidate's query shows it its own announcement.
InitElection ==
  /\ InitCommon
  /\ peer_id = [n \in Nodes |-> n]
  /\ config = [n \in Nodes |-> DefaultConfig]
  /\ lanUp = FALSE

StartRound ==
  /\ el.announced = {}
  /\ \E A \in SUBSET PeerIds \ {{}}, S \in SeqsUpTo(PeerIds, MaxCandidates),
        b \in BOOLEAN :
       el' = [NoElection EXCEPT !.announced = A, !.seen = S, !.self_seen = b]
  /\ UNCHANGED dataVars
  /\ UNCHANGED nodeVars

\* Candidate p runs the decision of should_become_server on what it collected.
Conclude(p) ==
  /\ p \in el.announced
  /\ el.result[p] = None
  /\ el' = [el EXCEPT !.result[p] = Some(ElectionDecision(p, Collected(p)))]
  /\ UNCHANGED dataVars
  /\ UNCHANGED nodeVars

NextElection ==
  \/ StartRound
  \/ \E p \in PeerIds : Conclude(p)

SpecElection == InitElection /\ [][NextElection]_vars

\* The scheduling the runtime gives: the interval keeps ticking, a started
\* role selection runs on, and an acceptor whose shutdown channel is closed
\* takes that branch of its select! sooner or later, and a connect that is
\* awaited completes if the server is up again and again. Peers and the cloud
\* owe nothing.
SpecEnvFair ==
  /\ SpecEnv
  /\ WF_vars(HealthTick(Solo))
  /\ WF_vars(SelectCloud(Solo))
  /\ WF_vars(SelectLan(Solo, "env"))
  /\ SF_vars(LanConnectDone(Solo))
  /\ WF_vars(Elect(Solo, "env"))
  /\ WF_vars(BecomeServer(Solo))
  /\ \A p \in Ports : SF_vars(AcceptorExit(Solo, p))

\* ---------------------------------------------------------------- properties

\* EnvMeshNode::new has returned Ok: the node exists, idle or inside a
\* re-selection started by the health loop.
Constructed(n) ==
  \/ pc[n] = "idle"
  \/ pc[n] \in {"cloud", "lan", "lanconn", "elect", "bind"} /\ caller[n] # "new"

\* The last call of reconnect_with_failover has returned.
SelectionEnded(n) == pc[n] \in {"idle", "dead"} /\ sel[n].result # "none"

\* C1: a constructed node holds exactly one of {client, server} in every
\* state, also after failed re-selections: a client and no server in
\* CloudClient and LanClient, a server and no client in LanServer.
C1_ExactlyOneHeld ==
  \A n \in Nodes :
    Constructed(n) =>
      /\ mode[n].kind \in {"CloudClient", "LanClient"} =>
           client[n] # None /\ server[n] = None
      /\ mode[n].kind = "LanServer" =>
           server[n] # None /\ client[n] = None

C1_Witness ==
  \E n \in Nodes :
    /\ pc[n] = "idle" /\ caller[n] = "failback"
    /\ sel[n].result = "ErrBind"
    /\ mode[n].kind = "LanServer"

\* C2: when enable_cloud holds and the cloud connect succeeds, the call ends
\* in CloudClient with the cloud client held, and it has performed no LAN
\* discovery, no election and no server start; at startup and on re-selection.
C2_CloudFirst ==
  \A n \in Nodes :
    sel[n].cloud = "ok" =>
      /\ pc[n] = "idle" /\ sel[n].result = "Ok"
      /\ mode[n] = CloudClient
      /\ client[n] = Some(cloud_url) /\ server[n] = None
      /\ sel[n].discover = 0 /\ sel[n].elect = 0
      /\ sel[n].start = 0 /\ sel[n].announce = 0

C2_Witness ==
  \E n \in Nodes :
    /\ sel[n].cloud = "ok" /\ caller[n] = "failback"
    /\ tick[n].kind = "LanServer"

\* The startup of a solo Auto node that found the cloud unreachable and no
\* LAN server has ended.
SoloStartupEnded(n) ==
  /\ caller[n] = "new" /\ SelectionEnded(n)
  /\ config[n].server_mode = "Auto" /\ config[n].enable_lan
  /\ sel[n].cloud # "ok" /\ sel[n].lan = "none"

\* C3 as stated: such a node ends as LanServer on the configured lan_port
\* after exactly one election round and one announce_as_server.
C3_Original ==
  \A n \in Nodes :
    SoloStartupEnded(n) =>
      /\ mode[n] = LanServer(config[n].lan_port)
      /\ sel[n].rounds = 0 /\ sel[n].elect = 1 /\ sel[n].announce = 1

\* C3 amended: such a node ends as LanServer on the port its embedded server
\* bound, which is the configured lan_port when that is not 0 and a free port
\* greater than 0 when it is 0, after exactly one election round and one
\* announce_as_server.
C3_SoloBecomesServer ==
  \A n \in Nodes :
    SoloStartupEnded(n) =>
      /\ sel[n].result = "Ok"
      /\ mode[n].kind = "LanServer" /\ server[n] = Some(mode[n].port)
      /\ config[n].lan_port # 0 => mode[n].port = config[n].lan_port
      /\ config[n].lan_port = 0 => mode[n].port \in Ephemeral /\ mode[n].port > 0
      /\ sel[n].rounds = 0 /\ sel[n].elect = 1 /\ sel[n].announce = 1

C3_Witness ==
  \E n \in Nodes :
    /\ SoloStartupEnded(n)
    /\ config[n].lan_port = DEFAULT_LAN_PORT
    /\ mode[n] = LanServer(DEFAULT_LAN_PORT)
    /\ tick[n] = NoTick

\* The address under which node n's embedded server is reached on the LAN.
NodeUrl(n) == <<"ws", <<"node", n>>, mode[n].port>>

\* Both nodes are Auto, found the cloud unreachable, and have finished the
\* role selection of their startup; no health tick has happened yet.
PairStartupEnded ==
  \A n \in Nodes :
    /\ caller[n] = "new" /\ pc[n] = "idle" /\ tick[n] = NoTick
    /\ config[n].server_mode = "Auto"
    /\ sel[n].cloud # "ok"

\* C4: once both nodes have finished role selection with the cloud
\* unreachable, exactly one is LanServer, the one with the greater PeerId, and
\* the other is LanClient of the winner's address.
C4_OneServer ==
  PairStartupEnded =>
    \E w, l \in Nodes :
      /\ w # l /\ peer_id[l] < peer_id[w]
      /\ mode[w].kind = "LanServer"
      /\ mode[l] = LanClient(NodeUrl(w))

\* The round has ended and every candidate collected exactly the announced
\* ids (with or without its own).
CoherentRound ==
  /\ el.announced # {}
  /\ Range(el.seen) = el.announced
  /\ \A p \in el.announced : el.result[p] # None

\* C5: in a round in which every candidate decides on the same observed set
\* of announced PeerIds, at most one candidate concludes true.
C5_AtMostOneWinner ==
  CoherentRound =>
    Cardinality({ p \in el.announced : el.result[p] = Some(TRUE) }) <= 1

C5_Witness ==
  /\ CoherentRound
  /\ Cardinality(el.announced) = NumPeerIds
  /\ ~el.self_seen
  /\ Cardinality({ p \in el.announced : el.result[p] = Some(TRUE) }) = 1

\* C6: should_become_server returns true iff this node's PeerId is strictly
\* greater than every PeerId it collected; an empty collection yields true.
C6_Decision ==
  \A p \in el.announced :
    el.result[p] # None =>
      /\ el.result[p][1] = (\A c \in Range(Collected(p)) : c < p)
      /\ Collected(p) = <<>> => el.result[p][1]

C6_Witness ==
  \E p, q \in el.announced :
    /\ el.result[p] = Some(FALSE) /\ Len(Collected(p)) = MaxCandidates
    /\ el.result[q] = Some(TRUE) /\ Collected(q) # <<>>

\* C7: a ClientOnly node never holds or starts an embedded server and is
\* never LanServer; a call that got neither the cloud nor a LAN server ends
\* with a no-server-available error.
C7_ClientOnly ==
  \A n \in Nodes :
    config[n].server_mode = "ClientOnly" =>
      /\ server[n] = None /\ mode[n].kind # "LanServer"
      /\ \A p \in Ports : lsn[n][p] = "free"
      /\ sel[n].start = 0 /\ sel[n].elect = 0
      /\ (SelectionEnded(n) /\ sel[n].cloud # "ok" /\ sel[n].lan # "ok") =>
           sel[n].result =
             IF config[n].enable_lan THEN "ErrClientOnly" ELSE "ErrLanDisabled"

C7_Witness ==
  \E n \in Nodes :
    /\ config[n].server_mode = "ClientOnly"
    /\ SelectionEnded(n) /\ caller[n] = "failover"
    /\ sel[n].cloud = "fail" /\ sel[n].lan = "connfail"
    /\ sel[n].result = "ErrClientOnly"

\* C8: in CloudClient mode a tick triggers re-selection exactly when its
\* probe fails and is the failure_threshold-th consecutive failed probe since
\* the last successful probe or failover attempt; the counter equals that
\* number of failed probes, so it is 0 after a successful probe and after
\* every failover attempt, successful or not.
C8_Failover ==
  \A n \in Nodes :
    /\ tick[n].kind = "CloudClient" =>
         /\ (tick[n].trig = "failover") <=>
              (tick[n].probe = "fail" /\ tick[n].count = failure_threshold)
         /\ tick[n].count <= failure_threshold
    /\ pc[n] = "idle" => failure_count[n] = streak[n]
    /\ (pc[n] = "idle" /\ tick[n].trig = "failover") => failure_count[n] = 0
    /\ (pc[n] = "idle" /\ tick[n].kind = "CloudClient" /\ tick[n].probe = "ok") =>
         failure_count[n] = 0

C8_Witness ==
  \E n \in Nodes :
    /\ pc[n] = "idle" /\ tick[n].trig = "failover"
    /\ tick[n].count = failure_threshold
    /\ sel[n].result = "ErrClientOnly"
    /\ failure_count[n] = 0

\* The failback a health tick started has returned, and the cloud answered
\* both the probe and the connect.
FailbackDone(n) ==
  /\ pc[n] = "idle" /\ tick[n].trig = "failback" /\ tick[n].probe = "ok"
  /\ tick[n].kind \in {"LanServer", "LanClient"}
  /\ config[n].enable_cloud /\ sel[n].cloud = "ok"

\* C9: after a tick in LanServer or LanClient mode that finds the cloud
\* reachable, the node is CloudClient with the cloud client, holds no server,
\* and no listener of a dropped server is kept open by its acceptor task:
\* each is closed or its acceptor is at the select! that sees the shutdown.
C9_Failback ==
  \A n \in Nodes :
    FailbackDone(n) =>
      /\ mode[n] = CloudClient
      /\ client[n] = Some(cloud_url) /\ server[n] = None
      /\ \A p \in Ports : lsn[n][p] \in {"free", "accepting"}

\* The part of C9 about the role alone.
C9_RoleAfterFailback ==
  \A n \in Nodes :
    FailbackDone(n) =>
      /\ mode[n] = CloudClient
      /\ client[n] = Some(cloud_url) /\ server[n] = None

\* The node sits in LanClient while its LAN server and the cloud are down.
StuckOnDeadLan(n) ==
  /\ pc[n] = "idle" /\ mode[n].kind = "LanClient"
  /\ ~lanUp /\ ~cloudUp

\* C10: a LanClient whose LAN server and cloud stay unreachable does not
\* remain idle on that upstream for ever: the health loop triggers a
\* re-selection.
C10_LeavesDeadLan == []<>(~StuckOnDeadLan(Solo))

\* ==================================================== the store (storage.rs)

\* EnvStorage::get: SELECT value, timestamp, machine_id WHERE key = ? AND
\* deleted = 0; no such row is Ok(None).
EnvStorage_get(tbl, key) ==
  IF tbl[key] # None /\ ~tbl[key][1].deleted
  THEN Some(<< tbl[key][1].value, tbl[key][1].timestamp, tbl[key][1].machine_id >>)
  ELSE None

EnvStorage_setKeepsFlag(tbl, key, value, mid, ts) ==
  [tbl EXCEPT ![key] =
     Some(Row(value, ts, mid, IF @ = None THEN FALSE ELSE @[1].deleted))]

\* EnvStorage::set: INSERT OR REPLACE (key, value, timestamp, machine_id, 0)
\* with the timestamp sampled from the clock; whatever row the key had is
\* replaced.
EnvStorage_set(tbl, key, value, mid, ts) ==
  [tbl EXCEPT ![key] = Some(Row(value, ts, mid, FALSE))]

\* EnvStorage::delete: UPDATE ... SET deleted = 1, timestamp = ? WHERE key = ?.
\* An UPDATE changes the rows that exist: a key without a row stays without
\* one. value and machine_id are not touched (_machine_id is unused).
EnvStorage_delete(tbl, key, mid, ts) ==
  IF tbl[key] = None THEN tbl
  ELSE [tbl EXCEPT ![key] =
          Some([@[1] EXCEPT !.deleted = TRUE, !.timestamp = ts])]

ListedAll(row) == TRUE

\* WHERE deleted = 0
Listed(row) == ~row.deleted

RECURSIVE ListFrom(_, _)
\* ORDER BY key: the keys in ascending order, from key k on.
ListFrom(tbl, k) ==
  IF k > NumKeys THEN <<>>
  ELSE (IF tbl[k] # None /\ Listed(tbl[k][1])
        THEN << << k, tbl[k][1].value, tbl[k][1].timestamp, tbl[k][1].machine_id >> >>
        ELSE <<>>) \o ListFrom(tbl, k + 1)

\* EnvStorage::list_all
EnvStorage_list_all(tbl) == ListFrom(tbl, 1)

NewerOrEqual(ts, t) == ts >= t

\* WHERE timestamp > ?
Newer(ts, t) == ts > t

\* The ChangeRecord (key, value, timestamp, machine_id, deleted) of key k.
ChangeRecord(tbl, k) ==
  << k, tbl[k][1].value, tbl[k][1].timestamp, tbl[k][1].machine_id,
     tbl[k][1].deleted >>

\* EnvStorage::get_changes_since: the rows with timestamp > t, ORDER BY
\* timestamp. SQL leaves the order of rows with equal timestamps open, so
\* this is the set of the lists the call may return.
EnvStorage_get_changes_since(tbl, t) ==
  LET ks == { k \in Keys : tbl[k] # None /\ Newer(tbl[k][1].timestamp, t) }
      n == Cardinality(ks)
  IN { [i \in 1..n |-> ChangeRecord(tbl, f[i])] :
         f \in { g \in [1..n -> ks] :
                   /\ \A i, j \in 1..n : i # j => g[i] # g[j]
                   /\ \A i, j \in 1..n :
                        i < j => tbl[g[i]][1].timestamp <= tbl[g[j]][1].timestamp } }

\* ------------------------------------ the command surfaces and the wire input

\* What a local write does to `held`.
HeldAfterSet(k, v, t) == [held EXCEPT ![k] = Some(<< v, t, machine_id >>)]
HeldAfterDelete(k) == [held EXCEPT ![k] = None]

\* The clock of the process moves on (it is sampled in whole seconds).
ClockTick ==
  /\ now < MaxClock
  /\ now' = now + 1
  /\ UNCHANGED << store, op, held, conns, alive, clientOk, evicted, snd >>
  /\ UNCHANGED nodeVars
  /\ UNCHANGED << el, fan, ipc, lk, hs, rx >>

\* bin/daemon.rs handle_command, Command::Get
handle_command_Get(k) ==
  /\ op' = [NoOp EXCEPT !.surface = "daemon", !.kind = "get", !.key = k,
                        !.pre = store[k], !.resp = "Value",
                        !.out = EnvStorage_get(store, k)]
  /\ UNCHANGED << now, store, held, conns, alive, clientOk, evicted, snd >>
  /\ UNCHANGED nodeVars
  /\ UNCHANGED << el, fan, lk, hs, rx >>

\* bin/daemon.rs handle_command, Command::Set: storage.set, then
\* Response::Success (Response::Error if the database call failed). Nothing
\* else is done.
handle_command_Set(k, v, dbOk) ==
  /\ store' = IF dbOk THEN EnvStorage_set(store, k, v, machine_id, now) ELSE store
  /\ held' = IF dbOk THEN HeldAfterSet(k, v, now) ELSE held
  /\ op' = [NoOp EXCEPT !.surface = "daemon", !.kind = "set", !.key = k,
                        !.pre = store[k], !.wrote = dbOk, !.t = now,
                        !.resp = IF dbOk THEN "Success" ELSE "Error"]
  /\ UNCHANGED << now, conns, alive, clientOk, evicted, snd >>
  /\ UNCHANGED nodeVars
  /\ UNCHANGED << el, fan, lk, hs, rx >>

\* bin/daemon.rs handle_command, Command::Delete
handle_command_Delete(k, dbOk) ==
  /\ store' = IF dbOk THEN EnvStorage_delete(store, k, machine_id, now) ELSE store
  /\ held' = IF dbOk THEN HeldAfterDelete(k) ELSE held
  /\ op' = [NoOp EXCEPT !.surface = "daemon", !.kind = "delete", !.key = k,
                        !.pre = store[k], !.wrote = dbOk, !.t = now,
                        !.resp = IF dbOk THEN "Success" ELSE "Error"]
  /\ UNCHANGED << now, conns, alive, clientOk, evicted, snd >>
  /\ UNCHANGED nodeVars
  /\ UNCHANGED << el, fan, lk, hs, rx >>

\* bin/daemon.rs handle_command, Command::List: the (key, value) pairs of
\* list_all.
handle_command_List ==
  /\ op' = [NoOp EXCEPT !.surface = "daemon", !.kind = "list",
                        !.resp = "List",
                        !.out = [i \in 1..Len(EnvStorage_list_all(store)) |->
                                   << EnvStorage_list_all(store)[i][1],
                                      EnvStorage_list_all(store)[i][2] >>]]
  /\ UNCHANGED << now, store, held, conns, alive, clientOk, evicted, snd >>
  /\ UNCHANGED nodeVars
  /\ UNCHANGED << el, fan, lk, hs, rx >>

\* The second sample of the clock a handler of api.rs takes for its message:
\* the same second or the next.
SecondSample == { t \in Times : t = now \/ t = now + 1 }

\* api.rs set_env_var: storage.set, then a SyncMessage with a timestamp
\* sampled anew, serialized and handed to p2p.publish; the command's result
\* is that of the publish. send_update is not called.
set_env_var(k, v, dbOk, pubOk) ==
  /\ store' = IF dbOk THEN EnvStorage_set(store, k, v, machine_id, now) ELSE store
  /\ held' = IF dbOk THEN HeldAfterSet(k, v, now) ELSE held
  /\ \E t \in SecondSample :
       /\ now' = IF dbOk THEN t ELSE now
       /\ op' = [NoOp EXCEPT
                   !.surface = "api", !.kind = "set", !.key = k,
                   !.pre = store[k], !.wrote = dbOk, !.t = now,
                   !.resp = IF dbOk /\ pubOk THEN "Success" ELSE "Error",
                   !.emit = IF dbOk /\ pubOk THEN "p2p" ELSE "none",
                   !.msg = IF dbOk
                           THEN Some([key |-> k, value |-> v, timestamp |-> t,
                                      machine_id |-> machine_id,
                                      deleted |-> FALSE])
                           ELSE None]
  /\ UNCHANGED << conns, alive, clientOk, evicted, snd >>
  /\ UNCHANGED nodeVars
  /\ UNCHANGED << el, fan, ipc, lk, hs, rx >>

\* api.rs delete_env_var: storage.delete, then a SyncMessage with deleted =
\* true and an empty value (0 here) handed to p2p.publish.
delete_env_var(k, dbOk, pubOk) ==
  /\ store' = IF dbOk THEN EnvStorage_delete(store, k, machine_id, now) ELSE store
  /\ held' = IF dbOk THEN HeldAfterDelete(k) ELSE held
  /\ \E t \in SecondSample :
       /\ now' = IF dbOk THEN t ELSE now
       /\ op' = [NoOp EXCEPT
                   !.surface = "api", !.kind = "delete", !.key = k,
                   !.pre = store[k], !.wrote = dbOk, !.t = now,
                   !.resp = IF dbOk /\ pubOk THEN "Success" ELSE "Error",
                   !.emit = IF dbOk /\ pubOk THEN "p2p" ELSE "none",
                   !.msg = IF dbOk
                           THEN Some([key |-> k, value |-> 0, timestamp |-> t,
                                      machine_id |-> machine_id,
                                      deleted |-> TRUE])
                           ELSE None]
  /\ UNCHANGED << conns, alive, clientOk, evicted, snd >>
  /\ UNCHANGED nodeVars
  /\ UNCHANGED << el, fan, ipc, lk, hs, rx >>

\* EnvMeshNode::receive_update with a client held: client.receive() hands the
\* next SyncMessage to the caller. Neither it nor any caller writes the
\* message to the store (EnvStorage has no operation that takes a message's
\* timestamp).
receive_update(n, msg) ==
  /\ client[n] # None
  /\ op' = [NoOp EXCEPT !.surface = "wire", !.kind = "recv", !.key = msg.key,
                        !.pre = store[msg.key], !.msg = Some(msg)]
  /\ held' = IF held[msg.key] # None /\ msg.timestamp >= held[msg.key][1][2]
             THEN [held EXCEPT ![msg.key] = None]
             ELSE held
  /\ UNCHANGED << now, store, conns, alive, clientOk, evicted, snd >>
  /\ UNCHANGED nodeVars
  /\ UNCHANGED << el, fan, ipc, lk, hs, rx >>

\* A process whose node was constructed with the default configuration while
\* the cloud was up: CloudClient, holding the cloud client; a new database.
InitStore ==
  /\ InitData
  /\ config = [n \in Nodes |-> DefaultConfig]
  /\ peer_id = [n \in Nodes |-> n]
  /\ pc = [n \in Nodes |-> IF n = Solo THEN "idle" ELSE "off"]
  /\ caller = [n \in Nodes |-> "new"]
  /\ mode = [n \in Nodes |-> CloudClient]
  /\ client = [n \in Nodes |-> IF n = Solo THEN Some(cloud_url) ELSE None]
  /\ server = [n \in Nodes |-> None]
  /\ lsn = [n \in Nodes |-> [p \in Ports |-> "free"]]
  /\ failure_count = [n \in Nodes |-> 0]
  /\ cloudUp = TRUE
  /\ lanUp = FALSE
  /\ sel = [n \in Nodes |->
              IF n = Solo
              THEN [FreshSel EXCEPT !.cloud = "ok", !.result = "Ok"]
              ELSE FreshSel]
  /\ tick = [n \in Nodes |-> NoTick]
  /\ streak = [n \in Nodes |-> 0]
  /\ el = NoElection

NextStore ==
  \/ ClockTick
  \/ \E k \in Keys : handle_command_Get(k) /\ UNCHANGED ipc
  \/ \E k \in Keys, v \in Values, dbOk \in BOOLEAN :
       handle_command_Set(k, v, dbOk) /\ UNCHANGED ipc
  \/ \E k \in Keys, dbOk \in BOOLEAN :
       handle_command_Delete(k, dbOk) /\ UNCHANGED ipc
  \/ handle_command_List /\ UNCHANGED ipc
  \/ \E k \in Keys, v \in Values, dbOk, pubOk \in BOOLEAN :
       set_env_var(k, v, dbOk, pubOk)
  \/ \E k \in Keys, dbOk, pubOk \in BOOLEAN : delete_env_var(k, dbOk, pubOk)
  \/ \E msg \in SyncMessage : receive_update(Solo, msg)

SpecStore == InitStore /\ [][NextStore]_vars

\* ------------------------------------------------------- the store's claims

\* (timestamp, origin) of a over that of b, lexicographically.
PairGreater(t1, o1, t2, o2) == t1 > t2 \/ (t1 = t2 /\ o1 > o2)

\* The row a remote message stands for.
RowOf(msg) == Row(msg.value, msg.timestamp, msg.machine_id, msg.deleted)

\* The greater of the row a key had and a message for it.
Greatest(pre, msg) ==
  IF pre = None
       \/ PairGreater(msg.timestamp, msg.machine_id,
                      pre[1].timestamp, pre[1].machine_id)
  THEN Some(RowOf(msg))
  ELSE pre

\* C11: once a peer has taken in a remote SyncMessage for a key, the stored
\* row of that key is the greater, by (timestamp, origin), of the row it had
\* and the message; so after any sequence of messages it is the greatest
\* observed, and a message that is not strictly greater changes nothing.
C11_GreatestWins ==
  op.kind = "recv" => store[op.key] = Greatest(op.pre, op.msg[1])

\* C12: when the writer commits a set or delete for a key that it wrote
\* before, the new (timestamp, origin) is strictly greater than the previous
\* one, also within one clock second.
C12_StrictlyIncreasing ==
  (op.kind \in {"set", "delete"} /\ op.wrote /\ op.pre # None
     /\ store[op.key] # None)
  => PairGreater(store[op.key][1].timestamp, store[op.key][1].machine_id,
                 op.pre[1].timestamp, op.pre[1].machine_id)

\* C13: after set(K, V, origin), get(K) returns (V, t, origin) whatever K
\* was before, and still does after remote messages for K with earlier
\* timestamps.
C13_SetThenGet ==
  \A k \in Keys : held[k] # None => EnvStorage_get(store, k) = held[k]

\* A remote message with an earlier timestamp has arrived for a key that was
\* set locally.
C13_Witness ==
  /\ op.kind = "recv"
  /\ held[op.key] # None
  /\ op.msg[1].timestamp < held[op.key][1][2]

\* The keys list() shows.
ListedKeys(tbl) ==
  { EnvStorage_list_all(tbl)[i][1] : i \in 1..Len(EnvStorage_list_all(tbl)) }

\* Key k is a tombstone that every answer of changes_since(0) contains.
TombstoneReported(tbl, k) ==
  /\ tbl[k] # None
  /\ tbl[k][1].deleted
  /\ \A c \in EnvStorage_get_changes_since(tbl, 0) :
       ChangeRecord(tbl, k) \in Range(c)

\* After a delete(K) that the store accepted, get(K) is none and list()
\* omits K; this part holds for a first and for a repeated delete.
C14_GetListAfterDelete ==
  (op.kind = "delete" /\ op.wrote)
  => /\ EnvStorage_get(store, op.key) = None
     /\ op.key \notin ListedKeys(store)

\* C14: after delete(K), first or repeated, get(K) is none, list() omits K,
\* and K is a tombstone that changes_since returns.
C14_DeleteIdempotent ==
  (op.kind = "delete" /\ op.wrote)
  => /\ EnvStorage_get(store, op.key) = None
     /\ op.key \notin ListedKeys(store)
     /\ TombstoneReported(store, op.key)

\* C15: delete(K, origin) on a key without a row creates a tombstone row
\* (deleted = true, timestamp = the time of the delete) that changes_since
\* returns.
C15_DeleteCreatesTombstone ==
  (op.kind = "delete" /\ op.wrote /\ op.pre = None)
  => /\ TombstoneReported(store, op.key)
     /\ store[op.key][1].timestamp = op.t

\* C16: list() is exactly the rows that are not tombstones, in ascending key
\* order, and equals what changes_since(0) reports with deleted = false.
C16_ListIsLive ==
  LET l == EnvStorage_list_all(store)
  IN /\ \A i, j \in 1..Len(l) : i < j => l[i][1] < l[j][1]
     /\ Range(l) =
          { << k, store[k][1].value, store[k][1].timestamp,
               store[k][1].machine_id >> :
              k \in { q \in Keys : store[q] # None /\ ~store[q][1].deleted } }
     /\ \A c \in EnvStorage_get_changes_since(store, 0) :
          Range(l) = { << r[1], r[2], r[3], r[4] >> :
                         r \in { x \in Range(c) : ~x[5] } }

\* A live row and a tombstone, after a delete.
C16_Witness ==
  /\ op.kind = "delete"
  /\ \E a, b \in Keys :
       /\ store[a] # None /\ store[a][1].deleted
       /\ store[b] # None /\ ~store[b][1].deleted

\* C17: every answer of changes_since(t) holds exactly the stored rows with
\* timestamp strictly greater than t, tombstones included, each once, in
\* ascending timestamp order; a row with timestamp t is not in it.
C17_ChangesSince ==
  \A t \in 0..MaxClock :
    /\ EnvStorage_get_changes_since(store, t) # {}
    /\ \A c \in EnvStorage_get_changes_since(store, t) :
         /\ Range(c) =
              { ChangeRecord(store, k) :
                  k \in { q \in Keys : store[q] # None
                                         /\ store[q][1].timestamp > t } }
         /\ \A i, j \in 1..Len(c) : i # j => c[i] # c[j]
         /\ \A i, j \in 1..Len(c) : i < j => c[i][3] <= c[j][3]
         /\ \A i \in 1..Len(c) : c[i][3] # t

\* A row stamped t and a tombstone stamped later than t.
C17_Witness ==
  \E a, b \in Keys :
    /\ store[a] # None /\ store[b] # None
    /\ store[b][1].deleted
    /\ store[a][1].timestamp < store[b][1].timestamp

\* C18: a Set or Delete that reported success was written to the store and
\* emitted as a SyncMessage through the wire client, if the node holds one,
\* or else through the embedded server.
C18_MutationEmitted ==
  (op.kind \in {"set", "delete"} /\ op.resp = "Success")
  => /\ op.wrote
     /\ op.emit = IF client[Solo] # None THEN "client" ELSE "server"

\* ====================================== sending (node.rs) and fan-out (server.rs)

\* Vec::remove(i), with the first element at index 1.
RemoveAt(cs, i) == [j \in 1..(Len(cs) - 1) |-> IF j < i THEN cs[j] ELSE cs[j + 1]]

IndexSkipAfterRemove(i) == i + 1

\* broadcast's Err arm: conns.remove(i) and i stays, so the element that
\* moved into place i is the next one sent to.
IndexAfterRemove(i) == i

RECURSIVE BroadcastLoop(_, _, _, _, _)
\* while i < conns.len(): send to conns[i]; Ok => i += 1, Err => remove(i).
\* att counts the sends tried on each connection, del those that succeeded.
BroadcastLoop(cs, i, ok, att, del) ==
  IF ~(i <= Len(cs)) THEN [conns |-> cs, attempts |-> att, delivered |-> del]
  ELSE IF cs[i] \in ok
       THEN BroadcastLoop(cs, i + 1, ok,
                          [att EXCEPT ![cs[i]] = @ + 1],
                          [del EXCEPT ![cs[i]] = @ + 1])
       ELSE BroadcastLoop(RemoveAt(cs, i), IndexAfterRemove(i), ok,
                          [att EXCEPT ![cs[i]] = @ + 1], del)

\* EmbeddedServer::broadcast on the connection list cs, when exactly the
\* connections in ok take a send; it returns Ok(()) in every case.
EmbeddedServer_broadcast(cs, ok) ==
  BroadcastLoop(cs, 1, ok, [c \in Conns |-> 0], [c \in Conns |-> 0])

SendPathServerFirst(c, s) ==
  IF s # None THEN "server" ELSE IF c # None THEN "client" ELSE "nowhere"

\* send_update's match: the client if Some, else the server if Some, else
\* the error.
SendPath(c, s) ==
  IF c # None THEN "client" ELSE IF s # None THEN "server" ELSE "nowhere"

\* EnvMeshNode::send_update(msg), called with the node's lock held, so not
\* during a role selection. client.send(..).await? returns the client's
\* error as it is; broadcast never fails.
send_update(n) ==
  LET path == SendPath(client[n], server[n])
      b == IF path = "server" THEN EmbeddedServer_broadcast(conns, alive)
           ELSE [conns |-> conns, attempts |-> [c \in Conns |-> 0],
                 delivered |-> [c \in Conns |-> 0]]
  IN /\ pc[n] = "idle"
     /\ conns' = b.conns
     /\ evicted' = evicted \cup (Range(conns) \ Range(b.conns))
     /\ snd' = [ path |-> path,
                 result |-> IF path = "client"
                            THEN (IF clientOk THEN "Ok" ELSE "ErrSend")
                            ELSE IF path = "server" THEN "Ok"
                            ELSE "ErrNotConnected",
                 hadClient |-> client[n] # None,
                 hadServer |-> server[n] # None,
                 wire |-> IF path = "client" THEN 1 ELSE 0,
                 before |-> conns, after |-> b.conns, ok |-> alive,
                 gone |-> evicted, attempts |-> b.attempts,
                 delivered |-> b.delivered ]
     /\ UNCHANGED << now, store, op, held, alive, clientOk >>
     /\ UNCHANGED << config, peer_id, pc, caller, mode, client, server, lsn,
                     failure_count, cloudUp, lanUp, sel, tick, streak, el,
                     fan, ipc, lk, hs, rx >>

CanLockAlways(holder) == TRUE

\* self.connections.lock().await returns when no task holds the mutex.
CanLock(holder) == holder = None

\* accept_async returned Ok in the acceptor of the held server:
\* handle_connection takes the connections mutex, pushes the stream onto the
\* list and the acceptor loops back to select!.
HandshakeOk(n, p, c) ==
  /\ lsn[n][p] = "handshaking"
  /\ CanLock(fan.lock)
  /\ server[n] = Some(p)
  /\ c \notin Range(conns) \cup evicted \cup hs.failed
  /\ lsn' = [lsn EXCEPT ![n][p] = "accepting"]
  /\ conns' = Append(conns, c)
  /\ alive' = alive \cup {c}
  /\ hs' = [hs EXCEPT !.done = @ \cup {c}]
  /\ UNCHANGED << now, store, op, held, clientOk, evicted, snd >>
  /\ UNCHANGED << config, peer_id, pc, caller, mode, client, server,
                  failure_count, cloudUp, lanUp, sel, tick, streak, el,
                  fan, ipc, lk, rx >>

AfterFailedHandshakeRegistered(cs, c) == Append(cs, c)

\* handle_connection when accept_async returned Err: the `?` returns before
\* connections.lock().await.push(ws_stream), so the list is as it was.
AfterFailedHandshake(cs, c) == cs

\* accept_async returned Err for connection c in the acceptor of the held
\* server: handle_connection returns the error, the acceptor logs it and
\* loops back to select!.
HandshakeFail(n, p, c) ==
  /\ lsn[n][p] = "handshaking"
  /\ server[n] = Some(p)
  /\ c \notin Range(conns) \cup evicted \cup hs.failed
  /\ lsn' = [lsn EXCEPT ![n][p] = "accepting"]
  /\ conns' = AfterFailedHandshake(conns, c)
  /\ hs' = [hs EXCEPT !.failed = @ \cup {c}]
  /\ UNCHANGED << now, store, op, held, alive, clientOk, evicted, snd >>
  /\ UNCHANGED << config, peer_id, pc, caller, mode, client, server,
                  failure_count, cloudUp, lanUp, sel, tick, streak, el,
                  fan, ipc, lk, rx >>

\* The peer behind a registered connection goes away: sends to it fail.
ConnBreak(c) ==
  /\ c \in alive
  /\ alive' = alive \ {c}
  /\ UNCHANGED << now, store, op, held, conns, clientOk, evicted, snd >>
  /\ UNCHANGED nodeVars
  /\ UNCHANGED << el, fan, ipc, lk, hs, rx >>

\* The upstream of the held wire client goes away or is back.
ClientFlip ==
  /\ clientOk' = ~clientOk
  /\ UNCHANGED << now, store, op, held, conns, alive, evicted, snd >>
  /\ UNCHANGED nodeVars
  /\ UNCHANGED << el, fan, ipc, lk, hs, rx >>

\* send_update on every pair of values its two Option fields can take: a
\* constructed node holds exactly one of them (CloudClient with the cloud
\* client, or LanServer on the default port with its acceptor running); the
\* pairs (None, None) and (Some, Some) are the remaining inputs of the match.
InitSend ==
  /\ InitData
  /\ config = [n \in Nodes |-> DefaultConfig]
  /\ peer_id = [n \in Nodes |-> n]
  /\ pc = [n \in Nodes |-> IF n = Solo THEN "idle" ELSE "off"]
  /\ caller = [n \in Nodes |-> "new"]
  /\ \E c \in {None, Some(cloud_url)}, s \in {None, Some(DEFAULT_LAN_PORT)} :
       /\ client = [n \in Nodes |-> IF n = Solo THEN c ELSE None]
       /\ server = [n \in Nodes |-> IF n = Solo THEN s ELSE None]
       /\ mode = [n \in Nodes |->
                    IF n = Solo /\ c = None /\ s # None
                    THEN LanServer(DEFAULT_LAN_PORT) ELSE CloudClient]
       /\ lsn = [n \in Nodes |-> [p \in Ports |->
                    IF n = Solo /\ s = Some(p) THEN "accepting" ELSE "free"]]
  /\ failure_count = [n \in Nodes |-> 0]
  /\ cloudUp \in BOOLEAN
  /\ lanUp = FALSE
  /\ sel = [n \in Nodes |-> FreshSel]
  /\ tick = [n \in Nodes |-> NoTick]
  /\ streak = [n \in Nodes |-> 0]
  /\ el = NoElection

NextSend ==
  \/ send_update(Solo)
  \/ \E p \in Ports : InboundConnect(Solo, p)
  \/ \E p \in Ports : HandshakeEnd(Solo, p)
  \/ \E p \in Ports, c \in Conns : HandshakeOk(Solo, p, c)
  \/ \E c \in Conns : ConnBreak(c)
  \/ ClientFlip

SpecSend == InitSend /\ [][NextSend]_vars

\* ------------------------------------------------ claims on sending and fan-out

\* C19: send_update sends through the wire client whenever one is held and
\* then does not broadcast; with no client it broadcasts through the embedded
\* server if one is held; with neither it returns the not-connected error and
\* sends nothing.
C19_SendUpdate ==
  snd.result # "none" =>
    IF snd.hadClient
    THEN /\ snd.path = "client" /\ snd.wire = 1
         /\ snd.result \in {"Ok", "ErrSend"}
         /\ \A c \in Conns : snd.attempts[c] = 0
         /\ snd.after = snd.before
    ELSE IF snd.hadServer
    THEN /\ snd.path = "server" /\ snd.wire = 0
         /\ snd.result = "Ok"
         /\ \A c \in Range(snd.before) : snd.attempts[c] = 1
    ELSE /\ snd.path = "nowhere" /\ snd.wire = 0
         /\ snd.result = "ErrNotConnected"
         /\ \A c \in Conns : snd.attempts[c] = 0

\* A send through the client while a server with registered connections was
\* there too.
C19_Witness ==
  /\ snd.path = "client"
  /\ snd.hadServer
  /\ snd.before # <<>>

\* C20: a broadcast delivers the message exactly once to every connection
\* registered at the time whose send succeeds; a connection whose send fails
\* gets nothing, is removed from the list and is not sent to by any later
\* broadcast; the others are still served and the broadcast returns Ok.
C20_Broadcast ==
  /\ evicted \cap Range(conns) = {}
  /\ snd.path = "server" =>
       /\ snd.result = "Ok"
       /\ \A c \in Conns :
            /\ (c \in Range(snd.before) /\ c \in snd.ok)
                 => /\ snd.delivered[c] = 1 /\ snd.attempts[c] = 1
                    /\ c \in Range(snd.after)
            /\ (c \in Range(snd.before) /\ c \notin snd.ok)
                 => /\ snd.delivered[c] = 0 /\ snd.attempts[c] = 1
                    /\ c \notin Range(snd.after)
            /\ c \notin Range(snd.before)
                 => snd.delivered[c] = 0 /\ snd.attempts[c] = 0
            /\ c \in snd.gone => snd.attempts[c] = 0

\* A broadcast over a list in which a connection whose send fails stands
\* before one whose send succeeds.
C20_Witness ==
  /\ snd.path = "server"
  /\ \E i, j \in 1..Len(snd.before) :
       /\ i < j
       /\ snd.before[i] \notin snd.ok
       /\ snd.before[j] \in snd.ok

\* ============================================ the node's view and its errors

get_peersConfigPort(n) ==
  IF mode[n].kind = "CloudClient" THEN << << "cloud", cloud_url >> >>
  ELSE IF mode[n].kind = "LanClient"
  THEN << << "lan-server", mode[n].server_addr >> >>
  ELSE << << "self", << "LAN Server on port", config[n].lan_port >> >> >>

\* EnvMeshNode::get_peers: one (id, address) pair, by the variant of self.mode
\* and with the fields that variant carries.
get_peers(n) ==
  IF mode[n].kind = "CloudClient" THEN << << "cloud", cloud_url >> >>
  ELSE IF mode[n].kind = "LanClient"
  THEN << << "lan-server", mode[n].server_addr >> >>
  ELSE << << "self", << "LAN Server on port", mode[n].port >> >> >>

\* C22: once the embedded server is dropped while its listener is open, the
\* acceptor task exits and the listener is closed, also when a handshake is
\* in progress at the drop.
C22_DropReleases ==
  \A p \in Ports : Orphan(Solo, p) ~> (lsn[Solo][p] = "free")

\* C23: whenever the node can be asked, get_peers() is one entry fixed by the
\* role actually held: the cloud url with the cloud client, the url of the
\* held LAN client, or the port that the held embedded server has bound.
C23_GetPeers ==
  \A n \in Nodes :
    pc[n] = "idle" =>
      /\ Len(get_peers(n)) = 1
      /\ mode[n].kind = "CloudClient" =>
           /\ get_peers(n)[1] = << "cloud", cloud_url >>
           /\ client[n] = Some(cloud_url)
      /\ mode[n].kind = "LanClient" =>
           \E url \in { LanUrl(a[1]) : a \in ServerAnswers(n) \ {None} } :
             /\ get_peers(n)[1] = << "lan-server", url >>
             /\ client[n] = Some(url)
      /\ mode[n].kind = "LanServer" =>
           \E P \in Ports :
             /\ get_peers(n)[1] = << "self", << "LAN Server on port", P >> >>
             /\ server[n] = Some(P)
             /\ lsn[n][P] # "free"

\* A LanServer whose bound port is not the configured one (lan_port = 0).
C23_Witness ==
  \E n \in Nodes :
    /\ pc[n] = "idle" /\ mode[n].kind = "LanServer"
    /\ server[n] # None
    /\ server[n][1] # config[n].lan_port

\* C25: a role selection that has come to an election returns (or finds a
\* LAN server to connect to): it does not go on losing elections and
\* retrying for ever.
C25_SelectionTerminates ==
  (pc[Solo] = "elect") ~> (pc[Solo] \in {"idle", "dead", "lanconn"})

\* C26: a connect attempt of role selection does not wait for ever on a
\* remote that never completes the handshake: the wait for the discovered
\* LAN server ends.
C26_ConnectBounded ==
  (pc[Solo] = "lanconn") ~> (pc[Solo] # "lanconn")

\* C27: a health tick in LanClient or LanServer mode triggers a re-selection
\* only if the cloud probe succeeded and enable_cloud is true.
C27_FailbackNeedsCloudEnabled ==
  \A n \in Nodes :
    (tick[n].kind \in {"LanClient", "LanServer"} /\ tick[n].trig # "none")
    => (config[n].enable_cloud /\ tick[n].probe = "ok")

\* C28: a re-selection the health loop started and that returned an error
\* has left mode, client and server as they were at the tick, and the node is
\* back in the loop, not dead.
C28_FailedReselection ==
  \A n \in Nodes :
    (caller[n] \in {"failover", "failback"} /\ sel[n].result \notin {"none", "Ok"})
    => /\ pc[n] = "idle"
       /\ Held(n) = tick[n].pre

\* A failover or failback has just returned an error.
C28_Witness ==
  \E n \in Nodes :
    /\ caller[n] \in {"failover", "failback"}
    /\ sel[n].result \notin {"none", "Ok"}
    /\ tick[n].trig # "none"
    /\ pc[n] = "idle"

\* The cloud was disabled or its connect failed, and LAN is disabled or no
\* LAN server was joined under ClientOnly.
ListedError(n) ==
  /\ sel[n].cloud # "ok"
  /\ \/ ~config[n].enable_lan
     \/ sel[n].lan # "ok" /\ config[n].server_mode = "ClientOnly"

\* The node was to become the server and the bind of its port failed.
BindError(n) ==
  /\ sel[n].cloud # "ok"
  /\ config[n].enable_lan /\ sel[n].lan # "ok"
  /\ config[n].server_mode # "ClientOnly"
  /\ sel[n].bind = "fail"

\* The role a successful selection leaves.
EndsInRole(n) ==
  /\ mode[n].kind \in {"CloudClient", "LanClient", "LanServer"}
  /\ sel[n].cloud = "ok" <=> mode[n].kind = "CloudClient"

\* C29 as stated: a returned role selection is an error exactly when the
\* cloud was not connected and LAN is disabled or, under ClientOnly, no LAN
\* server was joined; otherwise it ends in a role.
C29_Original ==
  \A n \in Nodes :
    SelectionEnded(n) =>
      /\ sel[n].result # "Ok" <=> ListedError(n)
      /\ sel[n].result = "Ok" => EndsInRole(n)

\* C29: a returned role selection is an error exactly in the listed cases or
\* when the bind of the embedded server's port failed; otherwise it ends in
\* CloudClient, LanClient or LanServer.
C29_ErrorCases ==
  \A n \in Nodes :
    SelectionEnded(n) =>
      /\ sel[n].result # "Ok" <=> (ListedError(n) \/ BindError(n))
      /\ sel[n].result = "Ok" => EndsInRole(n)

\* A selection that ended in the bind error.
C29_Witness ==
  \E n \in Nodes : SelectionEnded(n) /\ sel[n].result = "ErrBind"

\* C30: when a role selection has returned Ok, no listener of a server the
\* node no longer holds is kept open by an acceptor that cannot see the
\* shutdown (every open listener that is inside a handshake belongs to the
\* held server).
C30_PreviousReleased ==
  \A n \in Nodes :
    (SelectionEnded(n) /\ sel[n].result = "Ok")
    => \A p \in Ports : lsn[n][p] = "handshaking" => server[n] = Some(p)

\* ============================= broadcasts from concurrent tasks (server.rs)

\* broadcast is a method on &self, so several tasks can be inside it at once.
\* Its steps are its await points: the lock of the connections mutex and each
\* send of the loop. The guard it took is dropped when it returns.

\* A task calls broadcast(msg): the message is serialized (it cannot fail for
\* SyncMessage) and the task waits for the mutex.
BroadcastCall(t) ==
  /\ fan.pos[t] = "idle"
  /\ server[Solo] # None
  /\ fan.issued < MaxBroadcasts
  /\ fan' = [fan EXCEPT !.pos[t] = "wait", !.msg[t] = fan.issued + 1,
                        !.issued = @ + 1]
  /\ UNCHANGED << now, store, op, held, conns, alive, clientOk, evicted, snd,
                  ipc, lk, hs, rx >>
  /\ UNCHANGED nodeVars
  /\ UNCHANGED el

\* let mut conns = self.connections.lock().await; let mut i = 0;
BroadcastLock(t) ==
  /\ fan.pos[t] = "wait"
  /\ CanLock(fan.lock)
  /\ fan' = [fan EXCEPT !.lock = Some(t), !.pos[t] = "loop", !.i[t] = 1,
                        !.order = Append(@, fan.msg[t])]
  /\ UNCHANGED << now, store, op, held, conns, alive, clientOk, evicted, snd,
                  ipc, lk, hs, rx >>
  /\ UNCHANGED nodeVars
  /\ UNCHANGED el

\* One turn of the loop: conns[i].send(message.clone()).await; Ok => i += 1,
\* Err => conns.remove(i).
BroadcastSend(t) ==
  /\ fan.pos[t] = "loop"
  /\ fan.i[t] <= Len(conns)
  /\ LET c == conns[fan.i[t]]
     IN IF c \in alive
        THEN /\ fan' = [fan EXCEPT !.i[t] = @ + 1,
                                   !.inbox[c] = Append(@, fan.msg[t]),
                                   !.log = Append(@, << fan.msg[t], c >>)]
             /\ UNCHANGED << conns, evicted >>
        ELSE /\ fan' = [fan EXCEPT !.i[t] = IndexAfterRemove(@)]
             /\ conns' = RemoveAt(conns, fan.i[t])
             /\ evicted' = evicted \cup {c}
  /\ UNCHANGED << now, store, op, held, alive, clientOk, snd, ipc, lk, hs, rx >>
  /\ UNCHANGED nodeVars
  /\ UNCHANGED el

\* The loop's condition is false: broadcast returns Ok(()) and the guard is
\* dropped.
BroadcastReturn(t) ==
  /\ fan.pos[t] = "loop"
  /\ ~(fan.i[t] <= Len(conns))
  /\ fan' = [fan EXCEPT !.pos[t] = "idle", !.i[t] = 0, !.msg[t] = 0,
                        !.lock = IF @ = Some(t) THEN None ELSE @]
  /\ UNCHANGED << now, store, op, held, conns, alive, clientOk, evicted, snd,
                  ipc, lk, hs, rx >>
  /\ UNCHANGED nodeVars
  /\ UNCHANGED el

\* A node that is the LAN server on the default port, its acceptor running,
\* no connection yet.
InitFanout ==
  /\ InitData
  /\ config = [n \in Nodes |-> DefaultConfig]
  /\ peer_id = [n \in Nodes |-> n]
  /\ pc = [n \in Nodes |-> IF n = Solo THEN "idle" ELSE "off"]
  /\ caller = [n \in Nodes |-> "new"]
  /\ client = [n \in Nodes |-> None]
  /\ server = [n \in Nodes |-> IF n = Solo THEN Some(DEFAULT_LAN_PORT) ELSE None]
  /\ mode = [n \in Nodes |->
               IF n = Solo THEN LanServer(DEFAULT_LAN_PORT) ELSE CloudClient]
  /\ lsn = [n \in Nodes |-> [p \in Ports |->
               IF n = Solo /\ p = DEFAULT_LAN_PORT THEN "accepting" ELSE "free"]]
  /\ failure_count = [n \in Nodes |-> 0]
  /\ cloudUp = FALSE
  /\ lanUp = FALSE
  /\ sel = [n \in Nodes |-> FreshSel]
  /\ tick = [n \in Nodes |-> NoTick]
  /\ streak = [n \in Nodes |-> 0]
  /\ el = NoElection

NextFanout ==
  \/ \E t \in Tasks : BroadcastCall(t)
  \/ \E t \in Tasks : BroadcastLock(t)
  \/ \E t \in Tasks : BroadcastSend(t)
  \/ \E t \in Tasks : BroadcastReturn(t)
  \/ \E p \in Ports : InboundConnect(Solo, p)
  \/ \E p \in Ports : HandshakeEnd(Solo, p)
  \/ \E p \in Ports, c \in Conns : HandshakeOk(Solo, p, c)
  \/ \E c \in Conns : ConnBreak(c)

SpecFanout == InitFanout /\ [][NextFanout]_vars

\* The place of message m in the order in which the server performed the
\* broadcasts (0 if its broadcast has not taken the mutex).
PlaceOf(m) ==
  IF \E j \in 1..Len(fan.order) : fan.order[j] = m
  THEN CHOOSE j \in 1..Len(fan.order) : fan.order[j] = m
  ELSE 0

\* C21: whatever the tasks that issued them, a client that was sent two
\* broadcasts was sent them in the order in which the server performed them,
\* once each, and the frames of one broadcast's fan-out are written with no
\* frame of another broadcast between them.
C21_FanoutOrdered ==
  /\ \A c \in Conns : \A j, k \in 1..Len(fan.inbox[c]) :
       j < k => /\ PlaceOf(fan.inbox[c][j]) > 0
                /\ PlaceOf(fan.inbox[c][j]) < PlaceOf(fan.inbox[c][k])
  /\ \A a, b, d \in 1..Len(fan.log) :
       (a < b /\ b < d /\ fan.log[a][1] = fan.log[d][1])
         => fan.log[b][1] = fan.log[a][1]

\* Two tasks were inside broadcast at once, the one that called second took
\* the mutex first, and two clients were sent both messages.
C21_Witness ==
  /\ Len(fan.order) >= 2
  /\ fan.order[1] > fan.order[2]
  /\ \E c1, c2 \in Conns :
       /\ c1 # c2
       /\ Len(fan.inbox[c1]) >= 2
       /\ Len(fan.inbox[c2]) >= 2

\* ==================================== one connection to the daemon's socket

\* bin/daemon.rs handle_command, Command::Peers: the node's lock, get_peers.
handle_command_Peers ==
  /\ op' = [NoOp EXCEPT !.surface = "daemon", !.kind = "peers",
                        !.resp = "Peers", !.out = get_peers(Solo)]
  /\ UNCHANGED << now, store, held, conns, alive, clientOk, evicted, snd >>
  /\ UNCHANGED nodeVars
  /\ UNCHANGED << el, fan, lk, hs, rx >>

\* bin/daemon.rs handle_command, Command::Sync: nothing is done.
handle_command_Sync ==
  /\ op' = [NoOp EXCEPT !.surface = "daemon", !.kind = "sync",
                        !.resp = "Success"]
  /\ UNCHANGED << now, store, held, conns, alive, clientOk, evicted, snd >>
  /\ UNCHANGED nodeVars
  /\ UNCHANGED << el, fan, lk, hs, rx >>

\* The connection after one more line was read and the response of the given
\* variant was written for it.
Responded(line, variant) ==
  [ipc EXCEPT !.lines = @ + 1, !.last = line,
              !.resps = Append(@, [req |-> ipc.lines + 1, kind |-> variant])]

\* The loop's condition: the connection is being served and the peer writes
\* one more line.
LineArrives == ipc.state = "open" /\ ipc.lines < MaxLines

\* One turn of handle_connection's loop on a line that parses as a Command
\* other than Shutdown: handle_command, then the response and "\n".
handle_connection_Command ==
  /\ LineArrives
  /\ \/ \E k \in Keys : handle_command_Get(k)
     \/ \E k \in Keys, v \in Values, dbOk \in BOOLEAN :
          handle_command_Set(k, v, dbOk)
     \/ \E k \in Keys, dbOk \in BOOLEAN : handle_command_Delete(k, dbOk)
     \/ handle_command_List
     \/ handle_command_Peers
     \/ handle_command_Sync
  /\ ipc' = Responded(op'.kind, op'.resp)

\* One turn of the loop on a line of text that serde_json does not parse as a
\* Command: Response::Error("Invalid command: ..") is written, the line
\* buffer is cleared and the loop continues.
handle_connection_Invalid ==
  /\ LineArrives
  /\ ipc' = Responded("invalid", "Error")
  /\ UNCHANGED << now, store, op, held, conns, alive, clientOk, evicted, snd,
                  fan, lk, hs, rx >>
  /\ UNCHANGED nodeVars
  /\ UNCHANGED el

\* The bytes of the line are not UTF-8: read_line returns Err, the `?` of the
\* loop's condition returns it from handle_connection, both halves of the
\* stream are dropped. The spawning task logs the error.
handle_connection_ReadErr ==
  /\ LineArrives
  /\ ipc' = [ipc EXCEPT !.lines = @ + 1, !.last = "notutf8",
                        !.end = "readerr", !.state = "closed"]
  /\ UNCHANGED << now, store, op, held, conns, alive, clientOk, evicted, snd,
                  fan, lk, hs, rx >>
  /\ UNCHANGED nodeVars
  /\ UNCHANGED el

\* The line is Command::Shutdown: handle_command calls std::process::exit(0)
\* and does not return, so the two writes after it are not reached.
handle_connection_Shutdown ==
  /\ LineArrives
  /\ ipc' = [ipc EXCEPT !.lines = @ + 1, !.last = "shutdown",
                        !.end = "exit", !.state = "exited"]
  /\ UNCHANGED << now, store, op, held, conns, alive, clientOk, evicted, snd,
                  fan, lk, hs, rx >>
  /\ UNCHANGED nodeVars
  /\ UNCHANGED el

\* The peer closes its end: read_line returns Ok(0), the loop ends and
\* handle_connection returns Ok(()).
handle_connection_Eof ==
  /\ ipc.state = "open"
  /\ ipc' = [ipc EXCEPT !.end = "eof", !.state = "closed"]
  /\ UNCHANGED << now, store, op, held, conns, alive, clientOk, evicted, snd,
                  fan, lk, hs, rx >>
  /\ UNCHANGED nodeVars
  /\ UNCHANGED el

\* The daemon after main has built its state, with one connection accepted.
InitIpc == InitStore

NextIpc ==
  \/ handle_connection_Command
  \/ handle_connection_Invalid
  \/ handle_connection_ReadErr
  \/ handle_connection_Shutdown
  \/ handle_connection_Eof

SpecIpc == InitIpc /\ [][NextIpc]_vars

\* The responses written so far answer, one each and in order, the lines
\* read so far.
AnsweredInOrder ==
  /\ Len(ipc.resps) = ipc.lines
  /\ \A j \in 1..Len(ipc.resps) : ipc.resps[j].req = j

\* C24: on a connection to the daemon every line read has exactly one
\* response, the responses are in the order of the lines, a line that is not
\* a valid command is answered with Error, and the connection is served until
\* the peer closes it.
C24_EveryLineAnswered ==
  /\ AnsweredInOrder
  /\ ipc.last \in {"invalid", "notutf8"} =>
       /\ Len(ipc.resps) = ipc.lines
       /\ ipc.resps[Len(ipc.resps)].kind = "Error"
  /\ ipc.state # "open" => ipc.end = "eof"

\* What does hold: as long as every line read was text and none was Shutdown,
\* the lines were answered one each and in order, a line that does not parse
\* with Error, and only the peer has closed the connection.
C24_TextLinesAnswered ==
  ipc.end \in {"none", "eof"} =>
    /\ AnsweredInOrder
    /\ ipc.last = "invalid" => ipc.resps[Len(ipc.resps)].kind = "Error"
    /\ ipc.state # "open" => ipc.end = "eof"

\* An invalid line was answered with Error and a later command was served on
\* the same connection.
C24_Served ==
  /\ ipc.state = "open"
  /\ \E j, k \in 1..Len(ipc.resps) :
       /\ j < k
       /\ ipc.resps[j].kind = "Error"
       /\ ipc.resps[k].kind \in {"Value", "List", "Peers"}

\* ===================================== more on role selection and the server

\* A re-selection that began while the node was LanServer on a configured,
\* non-zero lan_port has reached the start of the embedded server and has
\* returned; the last health tick is the one that began it.
RebindEnded(n) ==
  /\ SelectionEnded(n) /\ caller[n] # "new"
  /\ tick[n].trig # "none"
  /\ tick[n].pre # <<>> /\ tick[n].pre[1].kind = "LanServer"
  /\ config[n].lan_port # 0
  /\ sel[n].bind # "na"

C32_JoinsDiscovered ==
  \A n \in Nodes :
    (SelectionEnded(n) /\ sel[n].lan = "ok") =>
      /\ sel[n].found # None /\ sel[n].result = "Ok"
      /\ mode[n] = LanClient(LanUrl(sel[n].found[1]))
      /\ client[n] = Some(LanUrl(sel[n].found[1]))
      /\ server[n] = None
      /\ sel[n].elect = 0 /\ sel[n].start = 0 /\ sel[n].announce = 0
      /\ sel[n].bind = "na"

\* A ServerPreferred node that was the LAN server joins the server it
\* discovered.
C32_Witness ==
  /\ SelectionEnded(Solo) /\ sel[Solo].lan = "ok"
  /\ config[Solo].server_mode = "ServerPreferred"
  /\ tick[Solo].trig # "none" /\ tick[Solo].pre[1].kind = "LanServer"
  /\ mode[Solo].kind = "LanClient"

\* A pass of role selection of a ServerPreferred node, LAN enabled, that did
\* not connect to the cloud and discovered no LAN server, has returned.
PreferredEnded(n) ==
  /\ SelectionEnded(n)
  /\ config[n].server_mode = "ServerPreferred" /\ config[n].enable_lan
  /\ sel[n].cloud \in {"skipped", "fail"} /\ sel[n].lan = "none"

ClientBreak(n) ==
  /\ n = Solo
  /\ client[n] # None
  /\ clientOk
  /\ clientOk' = FALSE
  /\ UNCHANGED << now, store, op, held, conns, alive, evicted, snd, fan, ipc,
                  lk, hs, rx >>
  /\ UNCHANGED nodeVars
  /\ UNCHANGED el

NextClient ==
  \/ NextEnv
  \/ ClientBreak(Solo)

\* The node with its health loop running and every step of a role selection
\* taken in the end, as in SpecEnvFair, and a held client that can fail.
SpecClientFair ==
  /\ InitEnv /\ [][NextClient]_vars
  /\ WF_vars(HealthTick(Solo))
  /\ WF_vars(SelectCloud(Solo))
  /\ WF_vars(SelectLan(Solo, "env"))
  /\ SF_vars(LanConnectDone(Solo))
  /\ WF_vars(Elect(Solo, "env"))
  /\ WF_vars(BecomeServer(Solo))
  /\ \A p \in Ports : SF_vars(AcceptorExit(Solo, p))

\* The node holds a wire client whose connection has failed.
FailedClientHeld(n) == client[n] # None /\ ~clientOk

\* C34: a node that holds a failed wire client does not keep it for ever:
\* from any state in which the health loop is between two ticks and the held
\* client has failed, a role re-selection begins, which is the only code that
\* drops a client or constructs one.
C34_FailedClientReplaced ==
  (FailedClientHeld(Solo) /\ pc[Solo] = "idle")
    ~> (~FailedClientHeld(Solo) \/ pc[Solo] # "idle")

\* ============================== the locks of the api handlers (api.rs)

\* set_env_var, delete_env_var and trigger_sync, step by step: a step ends at
\* an await (the lock of the Store mutex, the lock of the network mutex, the
\* publish) or at the return.
Handlers == {"set", "delete", "sync"}

\* What a handler does with its Store guard before it asks for the network
\* mutex: set_env_var and delete_env_var bind it to `storage` and never drop
\* it, so it lives to the end of the function; trigger_sync calls
\* drop(storage) after get_changes_since.
StoreGuardAfterWrite(h, t) == IF h = "sync" THEN None ELSE Some(t)

\* The handler is called by task t.
ApiEnter(t, h) ==
  /\ lk.pos[t] = "idle"
  /\ lk' = [lk EXCEPT !.pos[t] = "wantStore", !.h[t] = h]
  /\ UNCHANGED << now, store, op, held, conns, alive, clientOk, evicted, snd,
                  fan, ipc, hs, rx >>
  /\ UNCHANGED nodeVars
  /\ UNCHANGED el

\* let storage = state.storage.lock().await;
ApiLockStore(t) ==
  /\ lk.pos[t] = "wantStore"
  /\ CanLock(lk.storage)
  /\ lk' = [lk EXCEPT !.storage = Some(t), !.pos[t] = "haveStore"]
  /\ UNCHANGED << now, store, op, held, conns, alive, clientOk, evicted, snd,
                  fan, ipc, hs, rx >>
  /\ UNCHANGED nodeVars
  /\ UNCHANGED el

\* The call on the store and what follows it up to the next await: an error
\* of the store returns from the handler (every guard is dropped); otherwise
\* the handler builds its message and asks for the network mutex. trigger_sync
\* publishes one message per change and returns at once when there is none.
ApiStore(t, k, v, dbOk) ==
  /\ lk.pos[t] = "haveStore"
  /\ store' = IF ~dbOk THEN store
              ELSE IF lk.h[t] = "set"
              THEN EnvStorage_set(store, k, v, machine_id, now)
              ELSE IF lk.h[t] = "delete"
              THEN EnvStorage_delete(store, k, machine_id, now)
              ELSE store
  /\ held' = IF ~dbOk THEN held
             ELSE IF lk.h[t] = "set" THEN HeldAfterSet(k, v, now)
             ELSE IF lk.h[t] = "delete" THEN HeldAfterDelete(k)
             ELSE held
  /\ LET changes == Cardinality({ q \in Keys : store[q] # None })
         todo == IF lk.h[t] = "sync" THEN changes ELSE 1
     IN lk' = IF ~dbOk \/ todo = 0
              THEN [lk EXCEPT !.storage = None, !.pos[t] = "idle",
                              !.h[t] = "none", !.left[t] = 0]
              ELSE [lk EXCEPT !.storage = StoreGuardAfterWrite(lk.h[t], t),
                              !.pos[t] = "wantP2p", !.left[t] = todo]
  /\ UNCHANGED << now, op, conns, alive, clientOk, evicted, snd, fan, ipc,
                  hs, rx >>
  /\ UNCHANGED nodeVars
  /\ UNCHANGED el

\* let mut p2p = state.p2p.lock().await;
ApiLockP2p(t) ==
  /\ lk.pos[t] = "wantP2p"
  /\ CanLock(lk.p2p)
  /\ lk' = [lk EXCEPT !.p2p = Some(t), !.pos[t] = "publish"]
  /\ UNCHANGED << now, store, op, held, conns, alive, clientOk, evicted, snd,
                  fan, ipc, hs, rx >>
  /\ UNCHANGED nodeVars
  /\ UNCHANGED el

\* p2p.publish(msg_bytes).await and what follows it: set_env_var and
\* delete_env_var return, Ok or Err, and their guards are dropped;
\* trigger_sync returns on Err and after its last message, and otherwise
\* drops the network guard at the end of the loop body and goes round.
ApiPublish(t, pubOk) ==
  /\ lk.pos[t] = "publish"
  /\ lk' = IF pubOk /\ lk.left[t] > 1
           THEN [lk EXCEPT !.p2p = None, !.pos[t] = "wantP2p",
                           !.left[t] = @ - 1]
           ELSE [lk EXCEPT !.p2p = None,
                           !.storage = IF @ = Some(t) THEN None ELSE @,
                           !.pos[t] = "idle", !.h[t] = "none", !.left[t] = 0]
  /\ UNCHANGED << now, store, op, held, conns, alive, clientOk, evicted, snd,
                  fan, ipc, hs, rx >>
  /\ UNCHANGED nodeVars
  /\ UNCHANGED el

\* The application after AppState::new, its handlers called by several tasks.
InitLocks == InitStore

NextLocks ==
  \/ \E t \in Tasks, h \in Handlers : ApiEnter(t, h)
  \/ \E t \in Tasks : ApiLockStore(t)
  \/ \E t \in Tasks, k \in Keys, v \in Values, dbOk \in BOOLEAN :
       ApiStore(t, k, v, dbOk)
  \/ \E t \in Tasks : ApiLockP2p(t)
  \/ \E t \in Tasks, pubOk \in BOOLEAN : ApiPublish(t, pubOk)

SpecLocks == InitLocks /\ [][NextLocks]_vars

\* Task t waits for the network mutex or holds it.
AtNetwork(t) == lk.pos[t] \in {"wantP2p", "publish"}

\* C35: no task holds the Store mutex while it waits for the network mutex or
\* holds it: in the set, delete and sync handlers the Store guard is released
\* before the publish begins.
C35_StoreReleasedBeforePublish ==
  \A t \in Tasks : AtNetwork(t) => lk.storage # Some(t)

\* What does hold: trigger_sync has released the Store mutex when it asks for
\* the network mutex, and the mutexes are always taken in the same order.
C35_SyncReleases ==
  \A t \in Tasks :
    /\ (AtNetwork(t) /\ lk.h[t] = "sync") => lk.storage # Some(t)
    /\ lk.p2p = Some(t) => lk.pos[t] = "publish"

\* ===================================== the embedded server's connection list

\* EmbeddedServer::active_connections: the length of the list.
active_connections == Len(conns)

\* A node that prefers to be the server, with any port and cloud setting,
\* before EnvMeshNode::new.
InitServer ==
  /\ Init
  /\ config[Solo].server_mode = "ServerPreferred"
  /\ config[Solo].enable_lan

\* The node, its health loop and its acceptor, the peers that connect to its
\* embedded server, and the updates sent through it.
NextServer ==
  \/ Next
  \/ \E p \in Ports, c \in Conns : HandshakeOk(Solo, p, c)
  \/ \E p \in Ports, c \in Conns : HandshakeFail(Solo, p, c)
  \/ \E c \in Conns : ConnBreak(c)
  \/ send_update(Solo)

SpecServer == InitServer /\ [][NextServer]_vars

\* C36: active() is the number of inbound connections that completed the
\* handshake and were not evicted by a failed send; a connection whose
\* handshake failed is not registered and is sent nothing; a server just
\* started has a bound port greater than 0, also when asked for port 0, and
\* reports 0 connections until a handshake completes.
C36_ActiveConnections ==
  /\ active_connections = Cardinality(hs.done \ evicted)
  /\ Range(conns) = hs.done \ evicted
  /\ \A c \in hs.failed :
       /\ c \notin Range(conns) /\ c \notin hs.done
       /\ snd.attempts[c] = 0 /\ snd.delivered[c] = 0
  /\ server[Solo] # None =>
       /\ hs.started = server[Solo]
       /\ hs.started[1] > 0
       /\ config[Solo].lan_port = 0 => hs.started[1] \in Ephemeral
       /\ hs.done = {} => active_connections = 0

\* A server asked for port 0 and started by a re-selection: one handshake
\* failed, one connection is registered, and a broadcast went out.
C36_Witness ==
  /\ config[Solo].lan_port = 0
  /\ server[Solo] # None /\ caller[Solo] = "failback"
  /\ hs.failed # {} /\ active_connections = 1
  /\ snd.path = "server"

\* ====================================== WebSocketClient::receive (client.rs)

\* What self.stream.next() can yield: a text frame that is a SyncMessage (its
\* body stands for the message), a text frame that is not, a binary, ping or
\* pong frame, a close frame, a transport error, the end of the stream.
FrameKinds ==
  {"text", "badtext", "binary", "ping", "pong", "close", "error", "eos"}

Frames ==
  { f \in [kind : FrameKinds, body : 0..NumValues] :
      (f.kind = "text") = (f.body > 0) }

\* After these the stream yields nothing more.
Terminal(f) == f.kind \in {"close", "error", "eos"}

StreamOpenAfterStrict(f, open) == open /\ ~Terminal(f) /\ f.kind # "badtext"

\* The stream after next() yielded f: a close frame, an error or the end
\* finish it; serde_json failing on a text frame does not touch it.
StreamOpenAfter(f, open) == open /\ ~Terminal(f)

\* The match of receive: Text parses to Ok(Some(msg)) or, through `?`, to the
\* parse error; Close is Ok(None); Some(Err(e)) is the error; None is
\* Ok(None); every other message is Ok(None).
ReceiveResult(f) ==
  IF f.kind = "text" THEN << "Some", f.body >>
  ELSE IF f.kind = "badtext" THEN << "Err", "parse" >>
  ELSE IF f.kind = "close" THEN << "None" >>
  ELSE IF f.kind = "error" THEN << "Err", "websocket" >>
  ELSE IF f.kind = "eos" THEN << "None" >>
  ELSE << "None" >>

\* The peer of the held client sends a frame, closes, or the transport fails.
WireFrame(f) ==
  /\ client[Solo] # None
  /\ rx.open
  /\ Len(rx.sent) < MaxFrames
  /\ \A j \in 1..Len(rx.queue) : ~Terminal(rx.queue[j])
  /\ rx' = [rx EXCEPT !.sent = Append(@, f), !.queue = Append(@, f)]
  /\ UNCHANGED << now, store, op, held, conns, alive, clientOk, evicted, snd,
                  fan, ipc, lk, hs >>
  /\ UNCHANGED nodeVars
  /\ UNCHANGED el

\* EnvMeshNode::receive_update with a client held, down to
\* WebSocketClient::receive: the next thing the stream yields, matched. A
\* stream that has finished yields None again.
WebSocketClient_receive(n) ==
  /\ n = Solo /\ pc[n] = "idle"
  /\ client[n] # None
  /\ Len(rx.read) < MaxFrames
  /\ ~rx.open \/ rx.queue # <<>>
  /\ LET f == IF rx.open THEN Head(rx.queue) ELSE [kind |-> "eos", body |-> 0]
     IN rx' = [rx EXCEPT !.open = StreamOpenAfter(f, @),
                         !.queue = IF rx.open THEN Tail(@) ELSE @,
                         !.read = Append(@, f),
                         !.results = Append(@, ReceiveResult(f)),
                         !.pre = Held(n)]
  /\ UNCHANGED << now, store, op, held, conns, alive, clientOk, evicted, snd,
                  fan, ipc, lk, hs >>
  /\ UNCHANGED nodeVars
  /\ UNCHANGED el

\* A node that holds the cloud client.
InitWire == InitStore

NextWire ==
  \/ \E f \in Frames : WireFrame(f)
  \/ WebSocketClient_receive(Solo)

SpecWire == InitWire /\ [][NextWire]_vars

\* C37: receive() returns none only on an orderly close, a close frame or the
\* end of the stream; for any other inbound frame it returns the next
\* SyncMessage or an error.
C37_NoneOnlyOnClose ==
  \A j \in 1..Len(rx.read) :
    /\ rx.results[j][1] = "None" => rx.read[j].kind \in {"close", "eos"}
    /\ rx.read[j].kind \notin {"close", "eos"}
         => rx.results[j][1] \in {"Some", "Err"}

\* What does hold: none is returned for a close frame, for the end of the
\* stream and for every binary, ping and pong frame; a text frame gives its
\* message or the parse error; a transport error gives an error.
C37_NoneAlsoOnControl ==
  \A j \in 1..Len(rx.read) :
    /\ rx.results[j][1] = "None"
         <=> rx.read[j].kind \in {"close", "eos", "binary", "ping", "pong"}
    /\ rx.read[j].kind = "text" => rx.results[j] = << "Some", rx.read[j].body >>
    /\ rx.read[j].kind \in {"badtext", "error"} => rx.results[j][1] = "Err"

\* C38: a text frame that is not a SyncMessage costs only itself: receive
\* returns the parse error for it, the stream stays open and the role is what
\* it was, nothing that arrived after it is lost, and every well-formed
\* message read later is returned by the call that reads it.
C38_MalformedDropsOne ==
  /\ Len(rx.results) = Len(rx.read)
  /\ rx.open = (\A j \in 1..Len(rx.read) : ~Terminal(rx.read[j]))
  /\ rx.open => rx.read \o rx.queue = rx.sent
  /\ \A j \in 1..Len(rx.read) :
       /\ rx.read[j].kind = "badtext" => rx.results[j] = << "Err", "parse" >>
       /\ rx.read[j].kind = "text" => rx.results[j] = << "Some", rx.read[j].body >>
  /\ rx.pre # <<>> => Held(Solo) = rx.pre

\* A malformed frame was read, then two well-formed ones, on an open stream.
C38_Witness ==
  /\ rx.open /\ Len(rx.read) = 3
  /\ rx.read[1].kind = "badtext"
  /\ rx.read[2].kind = "text" /\ rx.read[3].kind = "text"
  /\ rx.results[3] = << "Some", rx.read[3].body >>

\* ================================= the store called with any origin id

\* The id a process passes to the store is a Uuid::new_v4() made at every
\* start of the process (state.rs:23, bin/daemon.rs:92), while the database
\* file is kept: the rows of a store carry the ids of earlier runs, and the
\* store is called with any id.

\* EnvStorage::set(key, value, machine_id)
StorageSet(k, v, o, dbOk) ==
  /\ store' = IF dbOk THEN EnvStorage_set(store, k, v, o, now) ELSE store
  /\ op' = [NoOp EXCEPT !.surface = "storage", !.kind = "set", !.key = k,
                        !.pre = store[k], !.wrote = dbOk, !.t = now,
                        !.origin = o]
  /\ held' = IF dbOk THEN [held EXCEPT ![k] = Some(<< v, now, o >>)] ELSE held
  /\ UNCHANGED << now, conns, alive, clientOk, evicted, snd, fan, ipc, lk,
                  hs, rx >>
  /\ UNCHANGED nodeVars
  /\ UNCHANGED el

\* EnvStorage::delete(key, machine_id)
StorageDelete(k, o, dbOk) ==
  /\ store' = IF dbOk THEN EnvStorage_delete(store, k, o, now) ELSE store
  /\ op' = [NoOp EXCEPT !.surface = "storage", !.kind = "delete", !.key = k,
                        !.pre = store[k], !.wrote = dbOk, !.t = now,
                        !.origin = o]
  /\ held' = IF dbOk THEN HeldAfterDelete(k) ELSE held
  /\ UNCHANGED << now, conns, alive, clientOk, evicted, snd, fan, ipc, lk,
                  hs, rx >>
  /\ UNCHANGED nodeVars
  /\ UNCHANGED el

NextStorage ==
  \/ ClockTick
  \/ \E k \in Keys, v \in Values, o \in Origins, dbOk \in BOOLEAN :
       StorageSet(k, v, o, dbOk)
  \/ \E k \in Keys, o \in Origins, dbOk \in BOOLEAN : StorageDelete(k, o, dbOk)

SpecStorage == InitStore /\ [][NextStorage]_vars

\* C39: delete(key, origin) on a key that has a row leaves a tombstone whose
\* deleted flag is true, whose timestamp is the time of the delete and whose
\* origin is the id passed by the machine that deleted.
C39_TombstoneOrigin ==
  (op.surface = "storage" /\ op.kind = "delete" /\ op.wrote /\ op.pre # None)
  => /\ store[op.key] # None
     /\ store[op.key][1].deleted
     /\ store[op.key][1].timestamp = op.t
     /\ store[op.key][1].machine_id = op.origin

\* What does hold: the tombstone has the flag and the time of the delete, and
\* the value and the origin the row had before.
C39_TombstoneKeepsOrigin ==
  (op.surface = "storage" /\ op.kind = "delete" /\ op.wrote /\ op.pre # None)
  => /\ store[op.key] # None
     /\ store[op.key][1].deleted
     /\ store[op.key][1].timestamp = op.t
     /\ store[op.key][1].machine_id = op.pre[1].machine_id
     /\ store[op.key][1].value = op.pre[1].value

\* C40: the SyncMessage that set_env_var or delete_env_var builds for a
\* mutation carries the (timestamp, origin) of the row the store holds for
\* the key after it, so that the two compare equal under the
\* last-writer-wins order.
C40_MessageMatchesRow ==
  (op.surface = "api" /\ op.kind \in {"set", "delete"} /\ op.wrote
     /\ store[op.key] # None)
  => /\ op.msg # None
     /\ op.msg[1].timestamp = store[op.key][1].timestamp
     /\ op.msg[1].machine_id = store[op.key][1].machine_id

====
